---- MODULE Spec2Model ----
(***************************************************************************)
(* Verification model of the public-presence blog pipeline.                *)
(*                                                                         *)
(*   Part I   scripts/watcher.js : the watch-rebuild loop (debounce timer, *)
(*            build child processes, signal handlers).                     *)
(*   Part II  scripts/prebuild.js and deploy.sh : the manifest builder and *)
(*            the artifacts a reader of the site can fetch.                *)
(*   Part III src/utils/posts.js : the query functions of the client over  *)
(*            the manifest fetched once per page session.                  *)
(*   Part IV  the text-level functions of the build: slug of a file name,  *)
(*            XML escaping of a feed item, reading time of a body, the     *)
(*            fields and defaults of a manifest entry.                     *)
(*   Part V   src/pages/Blog.jsx : the archive page, its tag selection and *)
(*            search filter, and the tag links that lead to it.            *)
(*   Part VI  webhook-receiver.js and update-blog.sh : the receiver of     *)
(*            GitHub pushes and the deployment script it runs.             *)
(*                                                                         *)
(* Time is counted in whole seconds.                                       *)
(***************************************************************************)
EXTENDS Integers, Sequences, FiniteSets, TLC

(***************************************************************************)
(* Bounds of the model.                                                    *)
(***************************************************************************)
\* Filesystem events delivered to the watcher in one run.
MaxEvents == 3

\* Runs of the build pipeline in one run of the artifact model.
MaxBuilds == 2

\* Posts of the manifest a page session fetches.
MaxPosts == 3

\* Calls of a query function in one page session.
MaxCalls == 3

\* Characters of a title, an excerpt, a tag or a search term.
MaxLen == 2

\* Parts (letters or ".md") of a file name.
MaxNameLen == 4

\* Deployments the webhook receiver triggers at most, and the seconds its
\* clock runs for.
MaxDeploys == 3
MaxSeconds == 120

(***************************************************************************)
(* Part I.  scripts/watcher.js                                             *)
(***************************************************************************)

\* CONFIG.debounceDelay, 5000 ms, in seconds.
DebounceDelay == 5

\* The chokidar events that have a handler calling debouncedBuild().
EventKinds == {"add", "change", "unlink"}

\* The signals that have a handler.
Signals == {"SIGINT", "SIGTERM"}

VARIABLES
    alive,          \* the watcher process is running
    watching,       \* the chokidar watch handle is open
    buildTimeout,   \* module variable buildTimeout: 0 is null, else the handle
                    \* (the number of the event that armed it)
    timers,         \* armed timers of the process: [id, left, during]
    running,        \* build child processes that have not exited: [id, version]
    nEvents,        \* events observed so far (also the version of the disk)
    nStarted,       \* builds started so far
    sinceEvent,     \* seconds since the last event (capped)
    startedSinceEvent, \* builds started since the last event
    lastStartDelay, \* sinceEvent when the last build started
    lastBuilt,      \* disk version at the start of the last build started
    lastExit        \* what the exec callback logged last: none / ok / failed

watcherVars == <<alive, watching, buildTimeout, timers, running, nEvents,
                 nStarted, sinceEvent, startedSinceEvent, lastStartDelay,
                 lastBuilt, lastExit>>

VARIABLES
    dirExists,      \* content/posts exists
    dirFiles,       \* the files in content/posts: file name -> source text
    pc,             \* where the build pipeline stands
    postFiles,      \* the array postFiles of main()
    posts,          \* the array posts of main(), once generateRSS has run
    rss,            \* the items of the string rss of main()
    buildNo,        \* number of the prebuild run (its build timestamp)
    pubRss,         \* public/rss.xml
    pubJson,        \* public/posts.json
    distRss,        \* build/rss.xml
    distJson,       \* build/posts.json
    webRss,         \* $WEB_ROOT/rss.xml
    webJson,        \* $WEB_ROOT/posts.json
    goodRss,        \* public/rss.xml as the last successful prebuild left it
    goodJson,       \* public/posts.json as the last successful prebuild left it
    genJson         \* src/generated-posts.json (written by generatePosts.js)

buildVars == <<dirExists, dirFiles, pc, postFiles, posts, rss, buildNo, pubRss,
               pubJson, distRss, distJson, webRss, webJson, goodRss, goodJson,
               genJson>>

VARIABLES
    served,         \* /posts.json as the web server has it
    cachedPosts,    \* module variable posts of posts.js: <<>> is null, <<a>>
                    \* the array a
    calls,          \* the calls of query functions made in the page session,
                    \* in the order they were made: [fn, arg, at]
    nFetch,         \* fetch('/posts.json') issued so far in the page session
    result          \* what the last call to return has returned: [fn, arg, value]

sessionVars == <<served, cachedPosts, calls, nFetch, result>>

VARIABLES
    applied         \* the last application of a text-level function of the
                    \* build: [fn, input, output]

entryVars == <<applied>>

VARIABLES
    blogPage,       \* the Blog page: closed, loading (mounted, loadData not
                    \* yet settled) or ready
    searchParams,   \* the query string of the page's URL: [key, value]
    selectedTags,   \* state selectedTags of Blog
    searchQuery,    \* state searchQuery of Blog
    blogPosts,      \* state posts of Blog
    filteredPosts   \* state filteredPosts of Blog: the posts listed

blogVars == <<blogPage, searchParams, selectedTags, searchQuery, blogPosts,
              filteredPosts>>

VARIABLES
    clock,          \* Date.now() of the webhook receiver, in seconds
    lastDeployTime, \* module variable lastDeployTime
    isDeploying,    \* module variable isDeploying
    scripts,        \* deployment scripts that have not exited: [id, phase]
    deployTimes,    \* the clock at every start of a deployment script
    pulled,         \* git pulls the deployment scripts have done so far
    response        \* what the receiver answered last: [status, deployed]

webhookVars == <<clock, lastDeployTime, isDeploying, scripts, deployTimes,
                 pulled, response>>

vars == <<watcherVars, buildVars, sessionVars, entryVars, blogVars, webhookVars>>

\* What the actions of each part leave alone.
notWatcherVars == <<buildVars, sessionVars, entryVars, blogVars, webhookVars>>
notBuildVars == <<watcherVars, sessionVars, entryVars, blogVars, webhookVars>>
notSessionVars == <<watcherVars, buildVars, entryVars, blogVars, webhookVars>>
notEntryVars == <<watcherVars, buildVars, sessionVars, blogVars, webhookVars>>
notBlogVars == <<watcherVars, buildVars, sessionVars, entryVars, webhookVars>>
notWebhookVars == <<watcherVars, buildVars, sessionVars, entryVars, blogVars>>

RunningIds == {b.id : b \in running}

WatcherInit ==
    /\ alive = TRUE
    /\ watching = TRUE
    /\ buildTimeout = 0
    /\ timers = {}
    /\ running = {}
    /\ nEvents = 0
    /\ nStarted = 0
    /\ sinceEvent = 0
    /\ startedSinceEvent = 0
    /\ lastStartDelay = 0
    /\ lastBuilt = 0
    /\ lastExit = "none"

\* clearTimeout(handle): the timer with that handle, if still armed, is
\* disarmed; clearing a timer that has fired is a no-op.
ClearTimeout(ts, handle) == {t \in ts : t.id # handle}

\* setTimeout(() => runBuild(), CONFIG.debounceDelay)
SetTimeout(ts, handle) ==
    ts \cup {[id |-> handle, left |-> DebounceDelay, during |-> RunningIds]}

\* A guard that drops the trigger while a build is running.
RunBuildDropWhileBuilding ==
    IF running # {}
    THEN UNCHANGED <<running, nStarted, startedSinceEvent, lastStartDelay,
                     lastBuilt>>
    ELSE /\ running' = running \cup {[id |-> nStarted + 1, version |-> nEvents]}
         /\ nStarted' = nStarted + 1
         /\ startedSinceEvent' = startedSinceEvent + 1
         /\ lastStartDelay' = sinceEvent
         /\ lastBuilt' = nEvents

\* runBuild(): exec() starts one more child process, unconditionally.
RunBuild ==
    /\ running' = running \cup {[id |-> nStarted + 1, version |-> nEvents]}
    /\ nStarted' = nStarted + 1
    /\ startedSinceEvent' = startedSinceEvent + 1
    /\ lastStartDelay' = sinceEvent
    /\ lastBuilt' = nEvents

\* debouncedBuild() without the clearTimeout.
DebouncedBuildNoClear ==
    /\ timers' = SetTimeout(timers, nEvents + 1)
    /\ buildTimeout' = nEvents + 1

\* debouncedBuild(): clear the timer buildTimeout refers to, arm a new one.
DebouncedBuild ==
    /\ timers' = SetTimeout(IF buildTimeout # 0
                            THEN ClearTimeout(timers, buildTimeout)
                            ELSE timers,
                            nEvents + 1)
    /\ buildTimeout' = nEvents + 1

\* watcher.on('add' | 'change' | 'unlink'): log, then debouncedBuild().
FsEvent(kind) ==
    /\ alive /\ watching
    /\ kind \in EventKinds
    /\ nEvents < MaxEvents
    /\ nEvents' = nEvents + 1
    /\ sinceEvent' = 0
    /\ startedSinceEvent' = 0
    /\ DebouncedBuild
    /\ UNCHANGED <<alive, watching, running, nStarted, lastStartDelay,
                   lastBuilt, lastExit>>
    /\ UNCHANGED notWatcherVars

\* The timer callback of debouncedBuild: runs when the delay has elapsed.
TimerFire(t) ==
    /\ alive
    /\ t \in timers /\ t.left = 0
    /\ timers' = timers \ {t}
    /\ RunBuild
    /\ UNCHANGED <<alive, watching, buildTimeout, nEvents, sinceEvent, lastExit>>
    /\ UNCHANGED notWatcherVars

\* One second passes; a timer that is due runs before time moves on.
Tick ==
    /\ \A t \in timers : t.left > 0
    /\ timers' = {[t EXCEPT !.left = t.left - 1] : t \in timers}
    /\ sinceEvent' = IF sinceEvent > DebounceDelay THEN sinceEvent
                     ELSE sinceEvent + 1
    /\ UNCHANGED <<alive, watching, buildTimeout, running, nEvents, nStarted,
                   startedSinceEvent, lastStartDelay, lastBuilt, lastExit>>
    /\ UNCHANGED notWatcherVars

\* An exec callback that starts the build again when it failed.
ExecCallbackRetry(b, ok) ==
    /\ lastExit' = IF ~alive THEN lastExit ELSE IF ok THEN "ok" ELSE "failed"
    /\ IF alive /\ ~ok
       THEN /\ running' = (running \ {b})
                              \cup {[id |-> nStarted + 1, version |-> nEvents]}
            /\ nStarted' = nStarted + 1
            /\ startedSinceEvent' = startedSinceEvent + 1
            /\ lastStartDelay' = sinceEvent
            /\ lastBuilt' = nEvents
       ELSE /\ running' = running \ {b}
            /\ UNCHANGED <<nStarted, startedSinceEvent, lastStartDelay,
                           lastBuilt>>
    /\ UNCHANGED <<alive, watching, buildTimeout, timers, nEvents, sinceEvent>>

\* The exec callback: the child b has exited; log failure or success, nothing
\* else.  After the watcher has exited nobody is left to run the callback.
ExecCallback(b, ok) ==
    /\ running' = running \ {b}
    /\ lastExit' = IF ~alive THEN lastExit ELSE IF ok THEN "ok" ELSE "failed"
    /\ UNCHANGED <<alive, watching, buildTimeout, timers, nEvents, nStarted,
                   sinceEvent, startedSinceEvent, lastStartDelay, lastBuilt>>

\* A build child process exits, with success or with failure.
BuildExit(b, ok) ==
    /\ b \in running
    /\ ExecCallback(b, ok)
    /\ UNCHANGED notWatcherVars

\* process.on('SIGINT' | 'SIGTERM'): watcher.close(); process.exit(0).
\* The exit takes the process's timers with it; nothing is done about the
\* children started by exec().
Shutdown(sig) ==
    /\ alive
    /\ sig \in Signals
    /\ watching' = FALSE
    /\ alive' = FALSE
    /\ timers' = {}
    /\ UNCHANGED <<buildTimeout, running, nEvents, nStarted, sinceEvent,
                   startedSinceEvent, lastStartDelay, lastBuilt, lastExit>>
    /\ UNCHANGED notWatcherVars

WatcherNext ==
    \/ \E kind \in EventKinds : FsEvent(kind)
    \/ \E t \in timers : TimerFire(t)
    \/ Tick
    \/ \E b \in running, ok \in BOOLEAN : BuildExit(b, ok)
    \/ \E sig \in Signals : Shutdown(sig)

(***************************************************************************)
(* Part II.  scripts/prebuild.js, deploy.sh                                *)
(***************************************************************************)

\* File names of the content directory: a stem and an extension.
PostFileNames ==
    {[stem |-> "a", ext |-> "md"], [stem |-> "b", ext |-> "md"],
     [stem |-> "c", ext |-> "md"]}

TemplateName == [stem |-> "POST_TEMPLATE", ext |-> "md"]

OtherFileNames == {TemplateName, [stem |-> "notes", ext |-> "txt"]}

FileNames == PostFileNames \cup OtherFileNames

\* The date: values a post's frontmatter may carry; NoDate: no date key.
NoDate == "<none>"
DateStrings == {"2024-01-01", "2024-06-01", "soon"}

\* What new Date().toISOString() returns during build number b: each build
\* runs on a later day than the one before.
NowISO(b) == "2026-01-0" \o ToString(b) \o "T00:00:00.000Z"

BuildTimes == {NowISO(b) : b \in 0..MaxBuilds}

\* new Date(s).getTime(), defined where the string parses.
DateTable ==
    [s \in {"2024-01-01", "2024-06-01"} \cup BuildTimes |->
        CASE s = "2024-01-01" -> 1
          [] s = "2024-06-01" -> 2
          [] OTHER -> 9 + (CHOOSE b \in 0..MaxBuilds : s = NowISO(b))]

\* new Date(s) is a valid date.
ValidDate(s) == s \in DOMAIN DateTable

\* The title: values of a post's frontmatter: a YAML string, or a YAML number
\* (title: 2024), which gray-matter hands over as a number.
StringTitle == "string"
NumberTitle == "number"

\* The source text of a file: whether gray-matter can parse its frontmatter,
\* and the title and the date the frontmatter declares.
PostSources ==
    {[fm |-> "ok", title |-> StringTitle, date |-> d] :
        d \in DateStrings \cup {NoDate}}
        \cup {[fm |-> "ok", title |-> NumberTitle, date |-> "2024-01-01"],
              [fm |-> "malformed", title |-> StringTitle, date |-> NoDate]}

PlainSource == [fm |-> "ok", title |-> StringTitle, date |-> NoDate]

SourcesOf(name) == IF name \in PostFileNames THEN PostSources ELSE {PlainSource}

\* Every content directory over FileNames.
Directories ==
    UNION {{f \in [D -> PostSources] : \A n \in D : f[n] \in SourcesOf(n)} :
              D \in SUBSET FileNames}

\* The orders in which readdirSync may list the names of S.
Listings(S) ==
    {o \in [1..Cardinality(S) -> S] : \A i, j \in DOMAIN o : o[i] = o[j] => i = j}

\* Array.prototype.filter
RECURSIVE Filter(_, _)
Filter(seq, keep) ==
    IF seq = <<>> THEN <<>>
    ELSE (IF Head(seq) \in keep THEN <<Head(seq)>> ELSE <<>>)
             \o Filter(Tail(seq), keep)

\* getPostFiles(): [] when the directory is missing, else the listing without
\* the names that do not end in .md and without POST_TEMPLATE.md.
GetPostFiles(exists, files, order) ==
    IF ~exists THEN <<>>
    ELSE Filter(order, {n \in DOMAIN files : n.ext = "md" /\ n # TemplateName})

\* matter(content) throws on frontmatter it cannot parse.
ParseThrows(src) == src.fm = "malformed"

\* A parsePost that stamps every post with the time of the build.
ParsePostStamped(name, src, now) ==
    [slug |-> name.stem,
     title |-> src.title,
     date |-> now]

\* parsePost(filepath): slug from the file name, date defaulted to now.
ParsePost(name, src, now) ==
    [slug |-> name.stem,
     title |-> src.title,
     date |-> IF src.date = NoDate THEN now ELSE src.date]

\* escapeXml(post.title) calls str.replace, which a number does not have.
EscapeXmlThrows(post) == post.title # StringTitle

\* The comparator of the sort, (a, b) => new Date(b.date) - new Date(a.date),
\* as sort() reads it: negative, zero or positive, NaN counting as zero.
Compare(a, b) ==
    IF ~ValidDate(a.date) \/ ~ValidDate(b.date) THEN 0
    ELSE IF DateTable[b.date] < DateTable[a.date] THEN -1
    ELSE IF DateTable[b.date] > DateTable[a.date] THEN 1
    ELSE 0

\* Array.prototype.sort as Node's engine runs it on an array shorter than 64
\* elements: the run the array starts with is counted (CountAndMakeRun), and
\* reversed if it descends strictly; every later element is then put in place
\* by a binary insertion (BinaryInsertionSort).

\* The length of the run arr starts with, idx being the next index to look at.
RECURSIVE RunLength(_, _, _)
RunLength(arr, isDescending, idx) ==
    IF idx > Len(arr) THEN idx - 1
    ELSE LET order == Compare(arr[idx], arr[idx - 1])
         IN  IF (isDescending /\ order >= 0) \/ (~isDescending /\ order < 0)
             THEN idx - 1
             ELSE RunLength(arr, isDescending, idx + 1)

ReverseRange(arr, n) ==
    [i \in DOMAIN arr |-> IF i <= n THEN arr[n + 1 - i] ELSE arr[i]]

\* Where the pivot goes among arr[left .. right - 1].
RECURSIVE InsertionPoint(_, _, _, _)
InsertionPoint(arr, pivot, left, right) ==
    IF left >= right THEN left
    ELSE LET mid == left + ((right - left) \div 2)
         IN  IF Compare(pivot, arr[mid]) < 0
             THEN InsertionPoint(arr, pivot, left, mid)
             ELSE InsertionPoint(arr, pivot, mid + 1, right)

\* arr[1 .. start - 1] is sorted; put arr[start], arr[start + 1], ... in place.
RECURSIVE BinaryInsertionSort(_, _)
BinaryInsertionSort(arr, start) ==
    IF start > Len(arr) THEN arr
    ELSE LET pivot == arr[start]
             left == InsertionPoint(arr, pivot, 1, start)
             moved == [p \in DOMAIN arr |->
                          IF p < left \/ p > start THEN arr[p]
                          ELSE IF p = left THEN pivot
                          ELSE arr[p - 1]]
         IN  BinaryInsertionSort(moved, start + 1)

\* arr.sort(comparator): what is in arr afterwards.
ArraySort(arr) ==
    IF Len(arr) < 2 THEN arr
    ELSE LET isDescending == Compare(arr[2], arr[1]) < 0
             runLength == RunLength(arr, isDescending, 3)
             run == IF isDescending THEN ReverseRange(arr, runLength) ELSE arr
         IN  BinaryInsertionSort(run, runLength + 1)

\* A generateRSS that sorts a copy of its argument.
SortACopy(arr, sorted) == arr

\* generateRSS(posts) sorts its argument in place: the caller's array is in
\* the sorted order afterwards.
SortInPlace(arr, sorted) == sorted

\* The <item> elements of the feed, in the order of sortedPosts.
RssItems(sorted) == [i \in DOMAIN sorted |-> sorted[i].slug]

\* postsData: one manifest entry per element of main()'s posts.
PostsData(arr) == [i \in DOMAIN arr |-> [slug |-> arr[i].slug, date |-> arr[i].date]]

\* A file on disk: absent, partly written (opened with truncation, not yet
\* or not wholly written) or complete; the build that wrote it; its items.
AbsentFile == [st |-> "absent", build |-> 0, items |-> <<>>]
PartialFile(b) == [st |-> "partial", build |-> b, items |-> <<>>]
CompleteFile(b, items) == [st |-> "complete", build |-> b, items |-> items]

\* ensurePostsLoaded(): the parsed body of /posts.json, [] when the fetch or
\* the parse fails.
EnsurePostsLoaded(file) == IF file.st = "complete" THEN file.items ELSE <<>>

\* getAllPosts()
GetAllPosts(file) == EnsurePostsLoaded(file)

\* The array main() holds after postFiles.map(parsePost).
ParsedPosts(files, names, now) ==
    [i \in DOMAIN names |-> ParsePost(names[i], files[names[i]], now)]

pipelineVars == <<pc, postFiles, posts, rss, buildNo>>
publicVars == <<pubRss, pubJson, goodRss, goodJson>>
deployVars == <<distRss, distJson, webRss, webJson>>

\* main() of prebuild.js up to the first write: list the directory (creating
\* it when missing), return when no post file is found, parse every file
\* (an exception ends the process), generate the feed (which sorts posts).
PrebuildStart ==
    /\ pc = "idle"
    /\ buildNo < MaxBuilds
    /\ buildNo' = buildNo + 1
    /\ dirExists' = TRUE
    /\ \E order \in Listings(DOMAIN dirFiles) :
         LET names == GetPostFiles(dirExists, dirFiles, order)
             parsed == ParsedPosts(dirFiles, names, NowISO(buildNo + 1))
         IN  /\ postFiles' = names
             /\ IF names = <<>>
                THEN pc' = "done" /\ posts' = <<>> /\ rss' = <<>>
                ELSE IF \E i \in DOMAIN names : ParseThrows(dirFiles[names[i]])
                THEN pc' = "failed" /\ posts' = <<>> /\ rss' = <<>>
                ELSE LET sorted == ArraySort(parsed)
                     IN  /\ posts' = SortInPlace(parsed, sorted)
                         /\ IF \E i \in DOMAIN sorted : EscapeXmlThrows(sorted[i])
                            THEN rss' = <<>> /\ pc' = "failed"
                            ELSE rss' = RssItems(sorted) /\ pc' = "rss"
    /\ UNCHANGED <<dirFiles, publicVars, deployVars, genJson>>
    /\ UNCHANGED notBuildVars

\* fs.writeFileSync(rssPath, rss): the file is opened with truncation ...
WriteRssOpen(ok) ==
    /\ pc = "rss"
    /\ IF ok THEN pubRss' = PartialFile(buildNo) /\ pc' = "rssOpen"
             ELSE pubRss' = pubRss /\ pc' = "failed"
    /\ UNCHANGED <<dirExists, dirFiles, postFiles, posts, rss, buildNo, pubJson,
                   goodRss, goodJson, deployVars, genJson>>
    /\ UNCHANGED notBuildVars

\* ... and written; an error here leaves the truncated file behind.
WriteRssFlush(ok) ==
    /\ pc = "rssOpen"
    /\ IF ok THEN pubRss' = CompleteFile(buildNo, rss) /\ pc' = "json"
             ELSE pubRss' = pubRss /\ pc' = "failed"
    /\ UNCHANGED <<dirExists, dirFiles, postFiles, posts, rss, buildNo, pubJson,
                   goodRss, goodJson, deployVars, genJson>>
    /\ UNCHANGED notBuildVars

\* fs.writeFileSync(postsJsonPath, JSON.stringify(postsData)): open ...
WriteJsonOpen(ok) ==
    /\ pc = "json"
    /\ IF ok THEN pubJson' = PartialFile(buildNo) /\ pc' = "jsonOpen"
             ELSE pubJson' = pubJson /\ pc' = "failed"
    /\ UNCHANGED <<dirExists, dirFiles, postFiles, posts, rss, buildNo, pubRss,
                   goodRss, goodJson, deployVars, genJson>>
    /\ UNCHANGED notBuildVars

\* ... and write; main() then prints its summary and returns.
WriteJsonFlush(ok) ==
    /\ pc = "jsonOpen"
    /\ IF ok
       THEN /\ pubJson' = CompleteFile(buildNo, PostsData(posts))
            /\ goodJson' = CompleteFile(buildNo, PostsData(posts))
            /\ goodRss' = pubRss
            /\ pc' = "done"
       ELSE /\ UNCHANGED <<pubJson, goodRss, goodJson>>
            /\ pc' = "failed"
    /\ UNCHANGED <<dirExists, dirFiles, postFiles, posts, rss, buildNo, pubRss,
                   deployVars, genJson>>
    /\ UNCHANGED notBuildVars

\* deploy.sh, "Build the site": the site build puts a copy of public/ into
\* build/; a failure ends the script.
SiteBuild(ok) ==
    /\ pc = "done"
    /\ IF ok THEN distRss' = pubRss /\ distJson' = pubJson /\ pc' = "built"
             ELSE UNCHANGED <<distRss, distJson>> /\ pc' = "failed"
    /\ UNCHANGED <<dirExists, dirFiles, postFiles, posts, rss, buildNo,
                   publicVars, webRss, webJson, genJson>>
    /\ UNCHANGED notBuildVars

\* deploy.sh: sudo rm -rf "$WEB_ROOT"/*
DeployClean ==
    /\ pc = "built"
    /\ webRss' = AbsentFile /\ webJson' = AbsentFile
    /\ pc' = "cleaned"
    /\ UNCHANGED <<dirExists, dirFiles, postFiles, posts, rss, buildNo,
                   publicVars, distRss, distJson, genJson>>
    /\ UNCHANGED notBuildVars

\* deploy.sh: sudo cp -r build/* "$WEB_ROOT/", posts.json first ...
DeployCopyJson(ok) ==
    /\ pc = "cleaned"
    /\ IF ok THEN webJson' = distJson /\ pc' = "copying"
             ELSE webJson' = webJson /\ pc' = "failed"
    /\ UNCHANGED <<dirExists, dirFiles, postFiles, posts, rss, buildNo,
                   publicVars, distRss, distJson, webRss, genJson>>
    /\ UNCHANGED notBuildVars

\* ... then rss.xml.
DeployCopyRss(ok) ==
    /\ pc = "copying"
    /\ IF ok THEN webRss' = distRss /\ pc' = "deployed"
             ELSE webRss' = webRss /\ pc' = "failed"
    /\ UNCHANGED <<dirExists, dirFiles, postFiles, posts, rss, buildNo,
                   publicVars, distRss, distJson, webJson, genJson>>
    /\ UNCHANGED notBuildVars

\* The script (prebuild.js alone, or deploy.sh) has ended.
PipelineExit ==
    /\ pc \in {"done", "failed", "deployed"}
    /\ pc' = "idle"
    /\ UNCHANGED <<dirExists, dirFiles, postFiles, posts, rss, buildNo,
                   publicVars, deployVars, genJson>>
    /\ UNCHANGED notBuildVars

\* main() of generatePosts.js: an empty array when the directory is missing
\* or holds no post file, else the posts sorted by date.
GeneratePosts ==
    /\ pc = "idle"
    /\ \E order \in Listings(DOMAIN dirFiles) :
         LET names == GetPostFiles(dirExists, dirFiles, order)
             parsed == ParsedPosts(dirFiles, names, NowISO(buildNo))
         IN  IF \E i \in DOMAIN names : ParseThrows(dirFiles[names[i]])
             THEN genJson' = genJson
             ELSE genJson' = CompleteFile(0, PostsData(ArraySort(parsed)))
    /\ UNCHANGED <<dirExists, dirFiles, pipelineVars, publicVars, deployVars>>
    /\ UNCHANGED notBuildVars

\* The files the artifact model puts into the content directory.
ArtifactSources(name) ==
    IF name.stem = "a"
    THEN {[fm |-> "ok", title |-> StringTitle, date |-> "2024-01-01"]}
    ELSE IF name.stem = "b"
    THEN {[fm |-> "ok", title |-> StringTitle, date |-> "2024-06-01"],
          [fm |-> "ok", title |-> NumberTitle, date |-> "2024-01-01"],
          [fm |-> "malformed", title |-> StringTitle, date |-> NoDate]}
    ELSE {}

\* A post file is created or rewritten while no build runs.
WriteFile(name, src) ==
    /\ pc = "idle"
    /\ dirExists
    /\ src \in ArtifactSources(name)
    /\ dirFiles' = [n \in DOMAIN dirFiles \cup {name} |->
                       IF n = name THEN src ELSE dirFiles[n]]
    /\ UNCHANGED <<dirExists, pipelineVars, publicVars, deployVars, genJson>>
    /\ UNCHANGED notBuildVars

\* A post file is deleted while no build runs.
Unlink(name) ==
    /\ pc = "idle"
    /\ name \in DOMAIN dirFiles
    /\ dirFiles' = [n \in DOMAIN dirFiles \ {name} |-> dirFiles[n]]
    /\ UNCHANGED <<dirExists, pipelineVars, publicVars, deployVars, genJson>>
    /\ UNCHANGED notBuildVars

\* The content directory is removed while no build runs.
RemoveDir ==
    /\ pc = "idle"
    /\ dirExists
    /\ dirExists' = FALSE
    /\ dirFiles' = <<>>
    /\ UNCHANGED <<pipelineVars, publicVars, deployVars, genJson>>
    /\ UNCHANGED notBuildVars

\* No page session is looked at.
SessionIdle ==
    /\ served = AbsentFile
    /\ cachedPosts = <<>>
    /\ calls = <<>>
    /\ nFetch = 0
    /\ result = [fn |-> "none", arg |-> <<>>, value |-> <<>>]

\* No text-level function has been applied.
EntryIdle ==
    applied = [fn |-> "none", input |-> <<>>, output |-> <<>>]

\* The Blog page is not open.
BlogIdle ==
    /\ blogPage = "closed"
    /\ searchParams = [key |-> "none", value |-> <<>>]
    /\ selectedTags = <<>>
    /\ searchQuery = <<>>
    /\ blogPosts = <<>>
    /\ filteredPosts = <<>>

\* The seconds of the cooldown (cooldownMs: 60000).
Cooldown == 60

\* The webhook receiver has just started: no deployment yet, and a clock
\* that is far from zero.
WebhookIdle ==
    /\ clock = Cooldown
    /\ lastDeployTime = 0
    /\ isDeploying = FALSE
    /\ scripts = {}
    /\ deployTimes = <<>>
    /\ pulled = 0
    /\ response = [status |-> 0, deployed |-> FALSE]

\* Each run of the text-level model applies one function to one input.
NothingApplied == applied.fn = "none"

\* The build variables while only the watcher is looked at.
BuildIdle ==
    /\ dirExists = TRUE /\ dirFiles = <<>>
    /\ pc = "idle" /\ postFiles = <<>> /\ posts = <<>> /\ rss = <<>>
    /\ buildNo = 0
    /\ pubRss = AbsentFile /\ pubJson = AbsentFile
    /\ distRss = AbsentFile /\ distJson = AbsentFile
    /\ webRss = AbsentFile /\ webJson = AbsentFile
    /\ goodRss = AbsentFile /\ goodJson = AbsentFile
    /\ genJson = AbsentFile

\* A site that has been built and deployed once: one post, a.md.
ArtifactInit ==
    /\ WatcherInit
    /\ SessionIdle
    /\ EntryIdle
    /\ BlogIdle
    /\ WebhookIdle
    /\ dirExists = TRUE
    /\ dirFiles \in {f \in Directories :
                       /\ DOMAIN f = {[stem |-> "a", ext |-> "md"]}
                       /\ \A n \in DOMAIN f : f[n] \in ArtifactSources(n)}
    /\ pc = "idle" /\ postFiles = <<>> /\ posts = <<>> /\ rss = <<>>
    /\ buildNo = 0
    /\ LET names == <<[stem |-> "a", ext |-> "md"]>>
           built == ArraySort(ParsedPosts(dirFiles, names, NowISO(0)))
       IN  /\ pubRss = CompleteFile(0, RssItems(built))
           /\ pubJson = CompleteFile(0, PostsData(built))
           /\ distRss = pubRss /\ distJson = pubJson
           /\ webRss = pubRss /\ webJson = pubJson
           /\ goodRss = pubRss /\ goodJson = pubJson
           /\ genJson = CompleteFile(0, PostsData(built))

ArtifactNext ==
    \/ PrebuildStart
    \/ \E ok \in BOOLEAN : WriteRssOpen(ok)
    \/ \E ok \in BOOLEAN : WriteRssFlush(ok)
    \/ \E ok \in BOOLEAN : WriteJsonOpen(ok)
    \/ \E ok \in BOOLEAN : WriteJsonFlush(ok)
    \/ \E ok \in BOOLEAN : SiteBuild(ok)
    \/ DeployClean
    \/ \E ok \in BOOLEAN : DeployCopyJson(ok)
    \/ \E ok \in BOOLEAN : DeployCopyRss(ok)
    \/ PipelineExit
    \/ GeneratePosts
    \/ \E name \in PostFileNames, src \in PostSources : WriteFile(name, src)
    \/ \E name \in PostFileNames : Unlink(name)
    \/ RemoveDir

\* One run of prebuild.js over any content directory, listed in any order.
ManifestInit ==
    /\ WatcherInit
    /\ SessionIdle
    /\ EntryIdle
    /\ BlogIdle
    /\ WebhookIdle
    /\ dirExists \in BOOLEAN
    /\ dirFiles \in Directories
    /\ ~dirExists => dirFiles = <<>>
    /\ pc = "idle" /\ postFiles = <<>> /\ posts = <<>> /\ rss = <<>>
    /\ buildNo = 0
    /\ pubRss = AbsentFile /\ pubJson = AbsentFile
    /\ distRss = AbsentFile /\ distJson = AbsentFile
    /\ webRss = AbsentFile /\ webJson = AbsentFile
    /\ goodRss = AbsentFile /\ goodJson = AbsentFile
    /\ genJson = AbsentFile

ManifestNext ==
    \/ buildNo = 0 /\ PrebuildStart
    \/ \E ok \in BOOLEAN : WriteRssOpen(ok)
    \/ \E ok \in BOOLEAN : WriteRssFlush(ok)
    \/ \E ok \in BOOLEAN : WriteJsonOpen(ok)
    \/ \E ok \in BOOLEAN : WriteJsonFlush(ok)

\* prebuild.js run again and again over a content directory nobody touches:
\* a directory that has not changed lists its files in the order it listed
\* them in before.
RebuildNext ==
    \/ buildNo = 0 /\ PrebuildStart
    \/ buildNo > 0 /\ PrebuildStart /\ postFiles' = postFiles
    \/ \E ok \in BOOLEAN : WriteRssOpen(ok)
    \/ \E ok \in BOOLEAN : WriteRssFlush(ok)
    \/ \E ok \in BOOLEAN : WriteJsonOpen(ok)
    \/ \E ok \in BOOLEAN : WriteJsonFlush(ok)
    \/ PipelineExit

(***************************************************************************)
(* Part III.  src/utils/posts.js                                           *)
(***************************************************************************)

\* The characters of the texts of a post and of a search term.
Chars == {"A", "B", "a", "b"}

\* The UTF-16 code unit of a character.
CharCode(c) ==
    CASE c = "A" -> 65 [] c = "B" -> 66 [] c = "a" -> 97 [] c = "b" -> 98

\* String.prototype.toLowerCase
ToLowerCase(t) ==
    [i \in DOMAIN t |->
        CASE t[i] = "A" -> "a" [] t[i] = "B" -> "b" [] OTHER -> t[i]]

\* String.prototype.includes
Includes(t, sub) ==
    \E off \in 0..(Len(t) - Len(sub)) : \A k \in 1..Len(sub) : t[off + k] = sub[k]

\* Array.prototype.includes
ArrayIncludes(arr, x) == \E i \in DOMAIN arr : arr[i] = x

\* The texts of at most n characters.
Texts(n) == UNION {[1..k -> Chars] : k \in 0..n}

\* The posts a manifest is made of.
SamplePosts ==
    {[slug |-> "p1", title |-> <<"A", "b">>, excerpt |-> <<>>,
      content |-> <<"b", "b">>, tags |-> << <<"a">>, <<"B">> >>],
     [slug |-> "p2", title |-> <<"b">>, excerpt |-> <<"a", "B">>,
      content |-> <<>>, tags |-> << <<"B">>, <<"a", "b">> >>],
     [slug |-> "p3", title |-> <<>>, excerpt |-> <<>>,
      content |-> <<"B", "A">>, tags |-> <<>>],
     [slug |-> "p4", title |-> <<"a">>, excerpt |-> <<"a">>,
      content |-> <<"a">>, tags |-> << <<"a">>, <<"a">> >>],
     [slug |-> "p5", title |-> <<"B">>, excerpt |-> <<"b">>,
      content |-> <<>>, tags |-> << <<"A", "b">> >>]}

\* The slugs a page may ask for: those of the posts, and one of no post.
SlugArgs == {p.slug : p \in SamplePosts} \cup {"zz"}

\* The manifests of at most MaxPosts posts, no slug twice.
Manifests ==
    UNION {{m \in [1..k -> SamplePosts] :
               \A i, j \in 1..k : m[i].slug = m[j].slug => i = j} :
           k \in 0..MaxPosts}

\* getPostBySlug(slug), after the await: <<>> is null.
GetPostBySlug(arr, slug) ==
    IF \E i \in DOMAIN arr : arr[i].slug = slug
    THEN <<arr[CHOOSE i \in DOMAIN arr :
                  /\ arr[i].slug = slug
                  /\ \A j \in DOMAIN arr : arr[j].slug = slug => i <= j]>>
    ELSE <<>>

\* The strings of the array seq in the order they were first added to a Set.
RECURSIVE TagSet(_, _)
TagSet(seq, acc) ==
    IF seq = <<>> THEN acc
    ELSE TagSet(Tail(seq),
                IF ArrayIncludes(acc, Head(seq)) THEN acc ELSE Append(acc, Head(seq)))

\* All tags of all posts, in the order forEach adds them to tagSet.
RECURSIVE CollectTags(_, _)
CollectTags(arr, acc) ==
    IF arr = <<>> THEN acc ELSE CollectTags(Tail(arr), TagSet(Head(arr).tags, acc))

\* s sorts before t when sort() is given no comparator: by UTF-16 code units,
\* a proper prefix first.
RECURSIVE CodeUnitLess(_, _)
CodeUnitLess(s, t) ==
    IF t = <<>> THEN FALSE
    ELSE IF s = <<>> THEN TRUE
    ELSE IF CharCode(Head(s)) # CharCode(Head(t))
    THEN CharCode(Head(s)) < CharCode(Head(t))
    ELSE CodeUnitLess(Tail(s), Tail(t))

\* Array.prototype.sort() with no comparator, over distinct strings.
RECURSIVE DefaultSort(_)
DefaultSort(seq) ==
    IF seq = <<>> THEN <<>>
    ELSE LET rest == DefaultSort(Tail(seq))
             before == SelectSeq(rest, LAMBDA t : CodeUnitLess(t, Head(seq)))
             after == SelectSeq(rest, LAMBDA t : ~CodeUnitLess(t, Head(seq)))
         IN  before \o <<Head(seq)>> \o after

\* getAllTags(), after the await.
GetAllTags(arr) == DefaultSort(CollectTags(arr, <<>>))

\* A getPostsByTag that compares tags without regard to letter case.
GetPostsByTagAnyCase(arr, tag) ==
    SelectSeq(arr, LAMBDA post :
        \E i \in DOMAIN post.tags : ToLowerCase(post.tags[i]) = ToLowerCase(tag))

\* getPostsByTag(tag), after the await.
GetPostsByTag(arr, tag) ==
    SelectSeq(arr, LAMBDA post : ArrayIncludes(post.tags, tag))

\* getRecentPosts(count), after the await.
GetRecentPosts(arr, count) ==
    SubSeq(arr, 1, IF count < Len(arr) THEN count ELSE Len(arr))

\* A searchPosts that does not lower-case the keyword.
SearchPostsKeywordAsIs(arr, keyword) ==
    SelectSeq(arr, LAMBDA post :
        \/ Includes(ToLowerCase(post.title), keyword)
        \/ Includes(ToLowerCase(post.excerpt), keyword)
        \/ Includes(ToLowerCase(post.content), keyword)
        \/ \E i \in DOMAIN post.tags : Includes(ToLowerCase(post.tags[i]), keyword))

\* searchPosts(keyword), after the await.
SearchPosts(arr, keyword) ==
    LET searchTerm == ToLowerCase(keyword)
    IN  SelectSeq(arr, LAMBDA post :
            \/ Includes(ToLowerCase(post.title), searchTerm)
            \/ Includes(ToLowerCase(post.excerpt), searchTerm)
            \/ Includes(ToLowerCase(post.content), searchTerm)
            \/ \E i \in DOMAIN post.tags :
                  Includes(ToLowerCase(post.tags[i]), searchTerm))

\* posts.findIndex(post => post.slug === slug), counted from 1: 0 is the -1
\* of the source.
FindIndex(arr, slug) ==
    IF \E i \in DOMAIN arr : arr[i].slug = slug
    THEN CHOOSE i \in DOMAIN arr :
             /\ arr[i].slug = slug
             /\ \A j \in DOMAIN arr : arr[j].slug = slug => i <= j
    ELSE 0

\* A getPostNavigation whose test for a next post is off by one.
GetPostNavigationShort(arr, currentSlug) ==
    LET currentIndex == FindIndex(arr, currentSlug)
    IN  [previous |-> IF currentIndex > 1 THEN <<arr[currentIndex - 1]>> ELSE <<>>,
         next |-> IF currentIndex < Len(arr) - 1
                  THEN <<arr[currentIndex + 1]>> ELSE <<>>]

\* getPostNavigation(currentSlug), after the await: <<>> is null.
GetPostNavigation(arr, currentSlug) ==
    LET currentIndex == FindIndex(arr, currentSlug)
    IN  [previous |-> IF currentIndex > 1 THEN <<arr[currentIndex - 1]>> ELSE <<>>,
         next |-> IF currentIndex < Len(arr)
                  THEN <<arr[currentIndex + 1]>> ELSE <<>>]

\* The exported query functions, and the arguments a caller passes.
QueryFunctions ==
    {"getAllPosts", "getPostBySlug", "getAllTags", "getPostsByTag",
     "getRecentPosts", "searchPosts", "getPostNavigation"}

QueryArgs(fn) ==
    CASE fn \in {"getAllPosts", "getAllTags"} -> {<<>>}
      [] fn \in {"getPostBySlug", "getPostNavigation"} -> SlugArgs
      [] fn = "getPostsByTag" -> Texts(MaxLen) \ {<<>>}
      [] fn = "getRecentPosts" -> 0..MaxPosts
      [] fn = "searchPosts" -> Texts(MaxLen)

\* What the function returns once its await ensurePostsLoaded() is over and
\* the module variable posts holds arr.
QueryValue(fn, arg, arr) ==
    CASE fn = "getAllPosts" -> arr
      [] fn = "getPostBySlug" -> GetPostBySlug(arr, arg)
      [] fn = "getAllTags" -> GetAllTags(arr)
      [] fn = "getPostsByTag" -> GetPostsByTag(arr, arg)
      [] fn = "getRecentPosts" -> GetRecentPosts(arr, arg)
      [] fn = "searchPosts" -> SearchPosts(arr, arg)
      [] fn = "getPostNavigation" -> GetPostNavigation(arr, arg)

\* A query function is called: it runs ensurePostsLoaded() up to its first
\* await, which is the fetch when posts === null, and is suspended there.
StartCall(cs, fn, arg) ==
    Append(cs, [fn |-> fn, arg |-> arg,
                at |-> IF cachedPosts = <<>> THEN "fetching" ELSE "loaded"])

\* The fetches issued by the calls of cs.
Fetching(cs) == {i \in DOMAIN cs : cs[i].at = "fetching"}

\* Some component calls one query function.
Call(fn, arg) ==
    /\ Len(calls) < MaxCalls
    /\ arg \in QueryArgs(fn)
    /\ calls' = StartCall(calls, fn, arg)
    /\ nFetch' = nFetch + Cardinality(Fetching(calls')) - Cardinality(Fetching(calls))
    /\ UNCHANGED <<served, cachedPosts, result>>
    /\ UNCHANGED notSessionVars

\* Blog.loadData(): Promise.all([getAllPosts(), getAllTags()]) starts both
\* calls before it awaits either.
BlogLoadData ==
    /\ Len(calls) + 2 <= MaxCalls
    /\ calls' = StartCall(StartCall(calls, "getAllPosts", <<>>), "getAllTags", <<>>)
    /\ nFetch' = nFetch + Cardinality(Fetching(calls')) - Cardinality(Fetching(calls))
    /\ UNCHANGED <<served, cachedPosts, result>>
    /\ UNCHANGED notSessionVars

\* Post.loadPost(): Promise.all([getPostBySlug(slug), getPostNavigation(slug)]).
PostLoadPost(slug) ==
    /\ Len(calls) + 2 <= MaxCalls
    /\ calls' = StartCall(StartCall(calls, "getPostBySlug", slug),
                          "getPostNavigation", slug)
    /\ nFetch' = nFetch + Cardinality(Fetching(calls')) - Cardinality(Fetching(calls))
    /\ UNCHANGED <<served, cachedPosts, result>>
    /\ UNCHANGED notSessionVars

\* The fetch of call i settles: posts becomes the parsed body, or [] when the
\* request, the status or the parse failed.
FetchDone(i, ok) ==
    /\ i \in DOMAIN calls
    /\ calls[i].at = "fetching"
    /\ cachedPosts' = <<IF ok THEN EnsurePostsLoaded(served) ELSE <<>>>>
    /\ calls' = [calls EXCEPT ![i].at = "loaded"]
    /\ UNCHANGED <<served, nFetch, result>>
    /\ UNCHANGED notSessionVars

\* Call i goes on after its await and returns.
Return(i) ==
    /\ i \in DOMAIN calls
    /\ calls[i].at = "loaded"
    /\ result' = [fn |-> calls[i].fn, arg |-> calls[i].arg,
                  value |-> QueryValue(calls[i].fn, calls[i].arg, cachedPosts[1])]
    /\ calls' = [calls EXCEPT ![i] = [fn |-> calls[i].fn, arg |-> <<>>,
                                      at |-> "returned"]]
    /\ UNCHANGED <<served, cachedPosts, nFetch>>
    /\ UNCHANGED notSessionVars

\* What the web server may have: no posts.json, or any manifest.
ServedFiles == {AbsentFile} \cup {CompleteFile(1, m) : m \in Manifests}

\* A page session over any manifest, in which one query function is called.
QueryInit ==
    /\ WatcherInit
    /\ BuildIdle
    /\ EntryIdle
    /\ BlogIdle
    /\ WebhookIdle
    /\ served \in ServedFiles
    /\ cachedPosts = <<>>
    /\ calls = <<>>
    /\ nFetch = 0
    /\ result = [fn |-> "none", arg |-> <<>>, value |-> <<>>]

QueryNext ==
    \/ \E fn \in QueryFunctions : \E arg \in QueryArgs(fn) :
          calls = <<>> /\ Call(fn, arg)
    \/ \E i \in 1..MaxCalls, ok \in BOOLEAN : FetchDone(i, ok)
    \/ \E i \in 1..MaxCalls : Return(i)

\* A page session in which the pages of the site load their data.
SessionInit ==
    /\ WatcherInit
    /\ BuildIdle
    /\ EntryIdle
    /\ BlogIdle
    /\ WebhookIdle
    /\ served \in {f \in ServedFiles : Len(f.items) <= 1}
    /\ cachedPosts = <<>>
    /\ calls = <<>>
    /\ nFetch = 0
    /\ result = [fn |-> "none", arg |-> <<>>, value |-> <<>>]

SessionNext ==
    \/ BlogLoadData
    \/ \E slug \in SlugArgs : PostLoadPost(slug)
    \/ \E count \in QueryArgs("getRecentPosts") : Call("getRecentPosts", count)
    \/ \E i \in 1..MaxCalls, ok \in BOOLEAN : FetchDone(i, ok)
    \/ \E i \in 1..MaxCalls : Return(i)

(***************************************************************************)
(* Part IV.  Text-level functions of the build                             *)
(***************************************************************************)

\* A file name is written as the sequence of its parts, a part being a
\* letter or the four characters ".md"; two names are the same string
\* exactly when they are the same sequence of parts.
NameParts == {"a", "b", ".md"}

\* The names getPostFiles() lets through: they end in .md (and have a
\* non-empty stem).
PostNames ==
    UNION {{n \in [1..k -> NameParts] : n[k] = ".md"} : k \in 2..MaxNameLen}

\* path.basename(filepath, '.md'): the name without a final .md
Basename(name) ==
    IF name # <<>> /\ name[Len(name)] = ".md" /\ Len(name) > 1
    THEN SubSeq(name, 1, Len(name) - 1)
    ELSE name

\* filepath.split('/').pop().replace('.md', ''): a string pattern is
\* replaced where it occurs first, and only there.
RECURSIVE ReplaceMd(_)
ReplaceMd(name) ==
    IF name = <<>> THEN <<>>
    ELSE IF Head(name) = ".md" THEN Tail(name)
    ELSE <<Head(name)>> \o ReplaceMd(Tail(name))

\* parsePost of prebuild.js is applied to two files of the directory: the
\* slugs of the posts.
ParsePostSlugs(n1, n2) ==
    /\ n1 # n2
    /\ NothingApplied
    /\ applied' = [fn |-> "parsePost", input |-> <<n1, n2>>,
                   output |-> <<Basename(n1), Basename(n2)>>]
    /\ UNCHANGED notEntryVars

\* processPost of generatePosts.js is applied to two files of the directory.
ProcessPostSlugs(n1, n2) ==
    /\ n1 # n2
    /\ NothingApplied
    /\ applied' = [fn |-> "processPost", input |-> <<n1, n2>>,
                   output |-> <<Basename(n1), Basename(n2)>>]
    /\ UNCHANGED notEntryVars

\* processPost of posts.js (the posts come from import.meta.glob) is applied
\* to two files of the directory.
GlobProcessPostSlugs(n1, n2) ==
    /\ n1 # n2
    /\ NothingApplied
    /\ applied' = [fn |-> "processPost (glob)", input |-> <<n1, n2>>,
                   output |-> <<ReplaceMd(n1), ReplaceMd(n2)>>]
    /\ UNCHANGED notEntryVars

\* The characters of the texts of a post that reaches the feed.
XmlChars == {"&", "<", ">", "\"", "'", "a", ";", "]"}

XmlTexts(n) == UNION {[1..k -> XmlChars] : k \in 0..n}

\* str.replace(/c/g, entity)
RECURSIVE ReplaceAll(_, _, _)
ReplaceAll(str, c, entity) ==
    IF str = <<>> THEN <<>>
    ELSE (IF Head(str) = c THEN entity ELSE <<Head(str)>>)
             \o ReplaceAll(Tail(str), c, entity)

\* escapeXml(str): five replacements, one after the other, & first.
EscapeXml(str) ==
    ReplaceAll(
      ReplaceAll(
        ReplaceAll(
          ReplaceAll(
            ReplaceAll(str, "&", <<"&", "a", "m", "p", ";">>),
            "<", <<"&", "l", "t", ";">>),
          ">", <<"&", "g", "t", ";">>),
        "\"", <<"&", "q", "u", "o", "t", ";">>),
      "'", <<"&", "a", "p", "o", "s", ";">>)

\* The length in post.content.substring(0, 200).
DescriptionLength == 200

\* String.prototype.substring(0, n)
Substring(str, n) == SubSeq(str, 1, IF n < Len(str) THEN n ELSE Len(str))

\* The text of <description>: post.excerpt || content.substring(0, 200) + '...'
DescriptionText(post) ==
    IF post.excerpt # <<>> THEN post.excerpt
    ELSE Substring(post.content, DescriptionLength) \o <<".", ".", ".">>

\* The text generateRSS puts into each element of the <item> of a post.
RssItem(post) ==
    [title |-> EscapeXml(post.title),
     description |-> EscapeXml(DescriptionText(post)),
     content |-> post.content,
     categories |-> [i \in DOMAIN post.tags |-> EscapeXml(post.tags[i])]]

\* White space as /\s/ and trim() see it.
WhiteSpace == {" ", "\n"}

\* String.prototype.trim
Trim(str) ==
    LET solid == {i \in DOMAIN str : str[i] \notin WhiteSpace}
    IN  IF solid = {} THEN <<>>
        ELSE SubSeq(str, CHOOSE i \in solid : \A j \in solid : i <= j,
                         CHOOSE i \in solid : \A j \in solid : j <= i)

\* str.split(/\s+/).length: every run of white space separates two pieces
\* (an empty piece where the string begins or ends with white space), so the
\* empty string and a string without white space split into one piece.
SplitLength(str) ==
    Cardinality({i \in DOMAIN str :
                    /\ str[i] \in WhiteSpace
                    /\ (i = 1 \/ str[i - 1] \notin WhiteSpace)}) + 1

\* wordsPerMinute, and the 200 of prebuild.js
WordsPerMinute == 200

\* Math.ceil(n / d) for n >= 0, d > 0
Ceil(n, d) == (n + d - 1) \div d

\* calculateReadingTime(content) of generatePosts.js and posts.js
CalculateReadingTime(content) ==
    LET words == SplitLength(Trim(content))
    IN  Ceil(words, WordsPerMinute)

\* readingTime of an entry of postsData in prebuild.js
ReadingTime(content) == Ceil(SplitLength(Trim(content)), WordsPerMinute)

\* n words, one space between them.
Words(n) == [i \in 1..(2 * n - 1) |-> IF i % 2 = 1 THEN "w" ELSE " "]

\* The bodies of the posts: short ones, white space included, and ones of
\* about WordsPerMinute words and twice as many.
Bodies ==
    UNION {[1..k -> WhiteSpace \cup {"w", "&", "]", ">"}] : k \in 0..MaxLen}
        \cup {Words(n) : n \in {WordsPerMinute - 1, WordsPerMinute,
                                WordsPerMinute + 1, 2 * WordsPerMinute,
                                2 * WordsPerMinute + 1}}
        \cup {<<"\n">> \o Words(WordsPerMinute + 1) \o <<" ", " ">>,
              <<"]", "]", ">">>}

\* The posts generateRSS is given.
FeedPosts ==
    {[title |-> t, excerpt |-> e, content |-> c, tags |-> g] :
        t \in XmlTexts(MaxLen), e \in {<<>>, <<"<", "a">>},
        c \in {<<>>, <<"&">>, <<"a", "<">>, <<"]", "]", ">">>},
        g \in {<<>>, << <<"&", "a">>, <<"'">> >>}}

\* generateRSS makes the <item> of one post.
GenerateItem(post) ==
    /\ NothingApplied
    /\ applied' = [fn |-> "generateRSS", input |-> post, output |-> RssItem(post)]
    /\ UNCHANGED notEntryVars

\* main() of prebuild.js makes the postsData entry of one post.
PostsDataEntry(content) ==
    /\ NothingApplied
    /\ applied' = [fn |-> "postsData", input |-> content,
                   output |-> ReadingTime(content)]
    /\ UNCHANGED notEntryVars

\* processPost of generatePosts.js computes the reading time of one post.
ProcessPostReadingTime(content) ==
    /\ NothingApplied
    /\ applied' = [fn |-> "calculateReadingTime", input |-> content,
                   output |-> CalculateReadingTime(content)]
    /\ UNCHANGED notEntryVars

\* The values gray-matter hands over for a key of the metadata block: a type
\* and the strings the value holds.  A key that is not there reads undefined.
Undefined == [type |-> "undefined", items |-> <<>>]
Null == [type |-> "null", items |-> <<>>]
Str(s) == [type |-> "string", items |-> <<s>>]
Num(s) == [type |-> "number", items |-> <<s>>]
DateObject(s) == [type |-> "date", items |-> <<s>>]
List(seq) == [type |-> "array", items |-> seq]

\* ToBoolean(v), as the || operator reads its left operand.
Truthy(v) ==
    CASE v.type = "undefined" -> FALSE
      [] v.type = "null" -> FALSE
      [] v.type = "string" -> v.items # <<"">>
      [] v.type = "number" -> v.items # <<"0">>
      [] OTHER -> TRUE

\* a || b
Or(a, b) == IF Truthy(a) THEN a ELSE b

\* The metadata blocks a post file may carry (YAML as gray-matter reads it).
MetadataBlocks ==
    [title : {Undefined, Str("T"), Str(""), Num("2024")},
     date : {Undefined, Str("2024-01-01"), DateObject("2024-01-01"), Null},
     excerpt : {Undefined, Str("E"), Str("")},
     tags : {Undefined, List(<<"x", "y">>), List(<<>>), Str("x"), Null},
     author : {Undefined, Str("A")}]

NoMetadata ==
    [title |-> Undefined, date |-> Undefined, excerpt |-> Undefined,
     tags |-> Undefined, author |-> Undefined]

\* The post files: with a metadata block before the body, or the body alone.
PostFiles ==
    {[block |-> TRUE, data |-> d, body |-> b] :
        d \in MetadataBlocks, b \in {<<>>, <<"w", " ", "w">>}}
      \cup {[block |-> FALSE, data |-> NoMetadata, body |-> b] :
                b \in {<<>>, <<"w", " ", "w">>, <<"-", "w">>}}

\* matter(content): the metadata and the text after the block; a file without
\* a block is all content.
Matter(file) == [data |-> file.data, content |-> file.body]

\* parsePost(filepath) of prebuild.js, every field of it.
ParsePostFields(filename, file, now) ==
    LET frontmatter == Matter(file).data
        markdownContent == Matter(file).content
    IN  [slug |-> Str(filename),
         title |-> Or(frontmatter.title, Str("Untitled")),
         date |-> Or(frontmatter.date, Str(now)),
         excerpt |-> Or(frontmatter.excerpt, Str("")),
         tags |-> Or(frontmatter.tags, List(<<>>)),
         author |-> Or(frontmatter.author, Str("Public Presence")),
         content |-> markdownContent]

\* processPost(filepath) of generatePosts.js
ProcessPost(filename, file, now) ==
    LET frontmatter == Matter(file).data
        markdownContent == Matter(file).content
    IN  [slug |-> Str(filename),
         title |-> Or(frontmatter.title, Str("Untitled Post")),
         date |-> Or(frontmatter.date, Str(now)),
         excerpt |-> Or(frontmatter.excerpt, Str("")),
         tags |-> Or(frontmatter.tags, List(<<>>)),
         author |-> Or(frontmatter.author, Str("Public Presence")),
         content |-> markdownContent,
         readingTime |-> CalculateReadingTime(markdownContent)]

\* The entry of postsData main() of prebuild.js makes of a parsed post.
PostsDataFields(post) ==
    [slug |-> post.slug, title |-> post.title, date |-> post.date,
     excerpt |-> post.excerpt, tags |-> post.tags, author |-> post.author,
     content |-> post.content, readingTime |-> ReadingTime(post.content)]

\* JSON.stringify of a value: a Date becomes its ISO string.
ToJSON(v) ==
    IF v.type = "date" THEN Str(v.items[1] \o "T00:00:00.000Z") ELSE v

MetadataKeys == {"slug", "title", "date", "excerpt", "tags", "author"}

\* JSON.stringify of an entry and JSON.parse in the client: the keys the
\* entry carries (a key whose value is undefined is left out) and the values.
Stringify(entry) ==
    [keys |-> {k \in MetadataKeys : entry[k].type # "undefined"}
                  \cup {"content", "readingTime"},
     slug |-> ToJSON(entry.slug), title |-> ToJSON(entry.title),
     date |-> ToJSON(entry.date), excerpt |-> ToJSON(entry.excerpt),
     tags |-> ToJSON(entry.tags), author |-> ToJSON(entry.author),
     content |-> entry.content, readingTime |-> entry.readingTime]

\* prebuild.js writes the manifest entry of one post file.
ParsePostEntry(file) ==
    /\ NothingApplied
    /\ applied' = [fn |-> "parsePostFields", input |-> file,
                   output |-> Stringify(PostsDataFields(
                                 ParsePostFields("a", file, NowISO(1))))]
    /\ UNCHANGED notEntryVars

\* generatePosts.js writes the entry of one post file.
ProcessPostEntry(file) ==
    /\ NothingApplied
    /\ applied' = [fn |-> "processPostFields", input |-> file,
                   output |-> Stringify(ProcessPost("a", file, NowISO(1)))]
    /\ UNCHANGED notEntryVars

\* The build functions are applied to one input after the other.
EntryInit ==
    /\ WatcherInit
    /\ BuildIdle
    /\ SessionIdle
    /\ EntryIdle
    /\ BlogIdle
    /\ WebhookIdle

EntryNext ==
    \/ \E n1, n2 \in PostNames : ParsePostSlugs(n1, n2)
    \/ \E n1, n2 \in PostNames : ProcessPostSlugs(n1, n2)
    \/ \E n1, n2 \in PostNames : GlobProcessPostSlugs(n1, n2)
    \/ \E post \in FeedPosts : GenerateItem(post)
    \/ \E content \in Bodies : PostsDataEntry(content)
    \/ \E content \in Bodies : ProcessPostReadingTime(content)
    \/ \E file \in PostFiles : ParsePostEntry(file)
    \/ \E file \in PostFiles : ProcessPostEntry(file)

(***************************************************************************)
(* Part V.  src/pages/Blog.jsx and the tag links of PostCard and Post      *)
(***************************************************************************)

\* Array.prototype.join(','), over strings that are sequences of characters.
RECURSIVE Join(_)
Join(arr) ==
    IF arr = <<>> THEN <<>>
    ELSE IF Len(arr) = 1 THEN arr[1]
    ELSE arr[1] \o <<",">> \o Join(Tail(arr))

\* String.prototype.split(','): the pieces between the commas.
RECURSIVE SplitComma(_, _)
SplitComma(str, piece) ==
    IF str = <<>> THEN <<piece>>
    ELSE IF Head(str) = "," THEN <<piece>> \o SplitComma(Tail(str), <<>>)
    ELSE SplitComma(Tail(str), Append(piece, Head(str)))

\* searchParams.get(name): <<>> is null, <<v>> the value v.
SearchParamsGet(params, name) ==
    IF params.key = name THEN <<params.value>> ELSE <<>>

\* The initial state of selectedTags:
\* searchParams.get('tags') ? searchParams.get('tags').split(',') : []
InitialSelectedTags(params) ==
    LET tags == SearchParamsGet(params, "tags")
    IN  IF tags # <<>> /\ tags[1] # <<>> THEN SplitComma(tags[1], <<>>) ELSE <<>>

\* The tags the posts of arr carry: a tag link is rendered for each.
TagLinks(arr) ==
    UNION {{arr[i].tags[k] : k \in DOMAIN arr[i].tags} : i \in DOMAIN arr}

\* selectedTags.some(tag => post.tags.includes(tag))
SomeSelected(tags, post) ==
    \E i \in DOMAIN tags : ArrayIncludes(post.tags, tags[i])

\* filterPosts() of the effect, for a manifest that has posts: what it hands
\* to setFilteredPosts.
FilterPosts(arr, tags, query) ==
    LET byTags == IF Len(tags) > 0
                  THEN SelectSeq(arr, LAMBDA post : SomeSelected(tags, post))
                  ELSE arr
    IN  IF Trim(query) # <<>>
        THEN LET searchResults == SearchPosts(arr, query)
             IN  IF Len(tags) > 0
                 THEN SelectSeq(searchResults,
                                LAMBDA post : SomeSelected(tags, post))
                 ELSE searchResults
        ELSE byTags

\* The effect that runs when searchQuery, selectedTags or posts has changed:
\* it returns at once while posts is empty.
FilterEffect(arr, tags, query, shown) ==
    IF Len(arr) = 0 THEN shown ELSE FilterPosts(arr, tags, query)

\* The Blog component mounts at /blog with the query string params.
MountBlog(params) ==
    /\ blogPage = "closed"
    /\ blogPage' = "loading"
    /\ searchParams' = params
    /\ selectedTags' = InitialSelectedTags(params)
    /\ searchQuery' = <<>>
    /\ blogPosts' = <<>>
    /\ filteredPosts' = <<>>
    /\ UNCHANGED notBlogVars

\* A reader follows the link of a tag on a post card or on a post page:
\* <Link to={`/blog?tag=${encodeURIComponent(tag)}`}>
FollowTagLink(tag) ==
    /\ tag \in TagLinks(GetAllPosts(served))
    /\ MountBlog([key |-> "tag", value |-> tag])

\* loadData() settles: posts and filteredPosts get the manifest and the
\* effect filters it; a failure is logged and leaves both empty.
LoadData(ok) ==
    /\ blogPage = "loading"
    /\ blogPage' = "ready"
    /\ IF ok
       THEN LET loadedPosts == GetAllPosts(served)
            IN  /\ blogPosts' = loadedPosts
                /\ filteredPosts' = FilterEffect(loadedPosts, selectedTags,
                                                 searchQuery, loadedPosts)
       ELSE UNCHANGED <<blogPosts, filteredPosts>>
    /\ UNCHANGED <<searchParams, selectedTags, searchQuery>>
    /\ UNCHANGED notBlogVars

\* handleTagClick(tag): the tag is taken out of the selection or added to it,
\* the URL follows, and the effect filters again.
HandleTagClick(tag) ==
    /\ blogPage = "ready"
    /\ tag \in TagLinks(blogPosts)
    /\ LET newSelectedTags ==
               IF ArrayIncludes(selectedTags, tag)
               THEN SelectSeq(selectedTags, LAMBDA t : t # tag)
               ELSE Append(selectedTags, tag)
       IN  /\ selectedTags' = newSelectedTags
           /\ searchParams' =
                  IF Len(newSelectedTags) > 0
                  THEN [key |-> "tags", value |-> Join(newSelectedTags)]
                  ELSE [key |-> "none", value |-> <<>>]
           /\ filteredPosts' = FilterEffect(blogPosts, newSelectedTags,
                                            searchQuery, filteredPosts)
    /\ UNCHANGED <<blogPage, searchQuery, blogPosts>>
    /\ UNCHANGED notBlogVars

\* handleSearchChange(e), and the effect after it.
HandleSearchChange(value) ==
    /\ blogPage = "ready"
    /\ searchQuery' = value
    /\ filteredPosts' = FilterEffect(blogPosts, selectedTags, value,
                                     filteredPosts)
    /\ UNCHANGED <<blogPage, searchParams, selectedTags, blogPosts>>
    /\ UNCHANGED notBlogVars

\* What the search box may hold.
SearchTexts == Texts(1) \cup {<<" ">>, <<"A", "b">>}

\* The query strings the archive is opened with besides a tag link: none,
\* or tags=... as handleTagClick writes it.
ArchiveUrls ==
    {[key |-> "none", value |-> <<>>],
     [key |-> "tags", value |-> <<>>],
     [key |-> "tags", value |-> Join(<< <<"a">> >>)],
     [key |-> "tags", value |-> Join(<< <<"B">>, <<"A", "b">> >>)]}

\* A reader on the site, the web server holding any manifest.
BlogInit ==
    /\ WatcherInit
    /\ BuildIdle
    /\ EntryIdle
    /\ WebhookIdle
    /\ BlogIdle
    /\ served \in ServedFiles
    /\ cachedPosts = <<>>
    /\ calls = <<>>
    /\ nFetch = 0
    /\ result = [fn |-> "none", arg |-> <<>>, value |-> <<>>]

BlogNext ==
    \/ \E tag \in Texts(MaxLen) : FollowTagLink(tag)
    \/ \E params \in ArchiveUrls : MountBlog(params)
    \/ \E ok \in BOOLEAN : LoadData(ok)
    \/ \E tag \in Texts(MaxLen) : HandleTagClick(tag)
    \/ \E value \in SearchTexts : HandleSearchChange(value)

(***************************************************************************)
(* Part VI.  webhook-receiver.js and update-blog.sh                        *)
(***************************************************************************)

\* CONFIG.secret, and a key that is not the secret.
Secret == "secret"
OtherKey == "guess"

\* Git refs, as the segments between the slashes.
HeadsPrefix == <<"refs", "heads">>
Refs ==
    {<<"refs", "heads", "main">>, <<"refs", "heads", "master">>,
     <<"refs", "heads", "dev">>, <<"refs", "tags", "main">>,
     <<"refs", "heads", "refs", "heads", "main">>}

\* A payload without the key ref.
NoRef == <<>>

\* CONFIG.allowedBranches
AllowedBranches == {<<"main">>, <<"master">>}

\* The request bodies: text that is not JSON, or a payload with its ref and
\* with or without the keys repository and pusher.
RequestBodies ==
    {[json |-> FALSE, ref |-> NoRef, complete |-> FALSE]}
      \cup {[json |-> TRUE, ref |-> r, complete |-> TRUE] : r \in Refs \cup {NoRef}}
      \cup {[json |-> TRUE, ref |-> <<"refs", "heads", "main">>, complete |-> FALSE]}

\* 'sha256=' + HMAC-SHA256(key, payload) in hex: one digest per key and
\* payload.
Digest(key, payload) == [scheme |-> "sha256=", key |-> key, payload |-> payload]

\* A header that is no digest of that length (e.g. a sha1= signature).
ShortSignature(payload) == [scheme |-> "sha1=", key |-> OtherKey, payload |-> payload]

\* No x-hub-signature-256 header.
NoSignature == [scheme |-> "", key |-> "", payload |-> [json |-> FALSE, ref |-> NoRef, complete |-> FALSE]]

\* The number of bytes of a signature header.
ByteLength(signature) ==
    CASE signature.scheme = "sha256=" -> 71
      [] signature.scheme = "sha1=" -> 45
      [] OTHER -> 0

\* A verifySignature that looks at the length of the header alone.
VerifySignatureByLength(payload, signature) ==
    ByteLength(signature) = ByteLength(Digest(Secret, payload))

\* verifySignature(payload, signature): timingSafeEqual throws when the
\* lengths differ, which is caught and answered false.
VerifySignature(payload, signature) ==
    LET digest == Digest(Secret, payload)
    IN  IF ByteLength(signature) # ByteLength(digest) THEN FALSE
        ELSE signature = digest

\* The signature headers a request with the body b may carry.
SignaturesFor(b) ==
    {NoSignature, Digest(Secret, b), Digest(OtherKey, b),
     Digest(Secret, [json |-> TRUE, ref |-> <<"refs", "heads", "dev">>,
                     complete |-> TRUE]),
     ShortSignature(b)}

\* The requests the server may get.
Requests ==
    UNION {[method : {"POST"}, url : {"/webhook"}, signature : SignaturesFor(b),
            event : {"push", "ping"}, body : {b}] : b \in RequestBodies}
      \cup {[method |-> "GET", url |-> "/webhook",
              signature |-> Digest(Secret, b), event |-> "push", body |-> b] :
                b \in {x \in RequestBodies : x.ref = <<"refs", "heads", "main">>}}
      \cup {[method |-> "POST", url |-> "/",
              signature |-> Digest(Secret, b), event |-> "push", body |-> b] :
                b \in {x \in RequestBodies : x.ref = <<"refs", "heads", "main">>}}

\* ref.replace('refs/heads/', ''): the first occurrence is taken out.
RECURSIVE ReplaceHeads(_)
ReplaceHeads(ref) ==
    IF Len(ref) < Len(HeadsPrefix) THEN ref
    ELSE IF SubSeq(ref, 1, Len(HeadsPrefix)) = HeadsPrefix
    THEN SubSeq(ref, Len(HeadsPrefix) + 1, Len(ref))
    ELSE <<Head(ref)>> \o ReplaceHeads(Tail(ref))

\* The cooldown check with one second less.
CooldownActiveShort(now) == now - lastDeployTime < Cooldown - 1

\* timeSinceLastDeploy < CONFIG.cooldownMs
CooldownActive(now) == now - lastDeployTime < Cooldown

\* What the request handler answers and does.  runDeployment reads
\* repository.full_name and pusher.name before it sets isDeploying: without
\* them it throws, after lastDeployTime has been set.
Outcome(req) ==
    IF req.method # "POST" \/ req.url # "/webhook" THEN "404"
    ELSE IF req.signature = NoSignature THEN "401"
    ELSE IF ~VerifySignature(req.body, req.signature) THEN "401"
    ELSE IF ~req.body.json THEN "500"
    ELSE IF req.event # "push" THEN "ignored"
    ELSE IF req.body.ref = NoRef THEN "500"
    ELSE IF ReplaceHeads(req.body.ref) \notin AllowedBranches THEN "ignored"
    ELSE IF isDeploying THEN "429"
    ELSE IF CooldownActive(clock) THEN "429"
    ELSE IF ~req.body.complete THEN "threw"
    ELSE "triggered"

\* The status code of an outcome.
StatusOf(outcome) ==
    CASE outcome = "404" -> 404
      [] outcome = "401" -> 401
      [] outcome = "429" -> 429
      [] outcome \in {"500", "threw"} -> 500
      [] OTHER -> 200

\* The server handles one request: the 'end' handler, runDeployment and the
\* start of the deployment script included.
HandleRequest(req) ==
    /\ Len(deployTimes) < MaxDeploys
    /\ LET outcome == Outcome(req)
       IN  /\ response' = [status |-> StatusOf(outcome),
                           deployed |-> outcome = "triggered"]
           /\ lastDeployTime' = IF outcome \in {"threw", "triggered"}
                                THEN clock ELSE lastDeployTime
           /\ IF outcome = "triggered"
              THEN /\ isDeploying' = TRUE
                   /\ scripts' = scripts \cup
                         {[id |-> Len(deployTimes) + 1, phase |-> "pull"]}
                   /\ deployTimes' = Append(deployTimes, clock)
              ELSE UNCHANGED <<isDeploying, scripts, deployTimes>>
    /\ UNCHANGED <<clock, pulled>>
    /\ UNCHANGED notWebhookVars

\* update-blog.sh: git pull, npm install, npm run build, copy to the web
\* directory.
NextPhase(phase) ==
    CASE phase = "pull" -> "install"
      [] phase = "install" -> "build"
      [] phase = "build" -> "copy"
      [] OTHER -> "copy"

\* A step of the deployment script has succeeded and the next one begins;
\* the git pull has changed the working tree by then.
ScriptStep(s) ==
    /\ s \in scripts
    /\ s.phase # "copy"
    /\ scripts' = (scripts \ {s}) \cup {[s EXCEPT !.phase = NextPhase(s.phase)]}
    /\ pulled' = IF s.phase = "pull" THEN pulled + 1 ELSE pulled
    /\ UNCHANGED <<clock, lastDeployTime, isDeploying, deployTimes, response>>
    /\ UNCHANGED notWebhookVars

\* An exec callback that clears the flag only when the script succeeded.
DeployExitKeepFlagOnError(s, ok) ==
    /\ s \in scripts
    /\ ok => s.phase = "copy"
    /\ scripts' = scripts \ {s}
    /\ isDeploying' = IF ok THEN FALSE ELSE isDeploying
    /\ UNCHANGED <<clock, lastDeployTime, deployTimes, pulled, response>>
    /\ UNCHANGED notWebhookVars

\* The deployment script exits, after its last step or with an error at any
\* step, and the callback of exec runs.
DeployExit(s, ok) ==
    /\ s \in scripts
    /\ ok => s.phase = "copy"
    /\ scripts' = scripts \ {s}
    /\ isDeploying' = FALSE
    /\ UNCHANGED <<clock, lastDeployTime, deployTimes, pulled, response>>
    /\ UNCHANGED notWebhookVars

\* Time passes: one second less than the cooldown, or the cooldown.
Advance(d) ==
    /\ clock + d <= Cooldown + MaxSeconds
    /\ clock' = clock + d
    /\ UNCHANGED <<lastDeployTime, isDeploying, scripts, deployTimes, pulled,
                   response>>
    /\ UNCHANGED notWebhookVars

\* The receiver alone.
WebhookNext ==
    \/ \E req \in Requests : HandleRequest(req)
    \/ \E s \in scripts : ScriptStep(s)
    \/ \E s \in scripts, ok \in BOOLEAN : DeployExit(s, ok)
    \/ \E d \in {Cooldown - 1, Cooldown} : Advance(d)

\* A push to main, signed by GitHub.
PushToMain ==
    LET b == [json |-> TRUE, ref |-> <<"refs", "heads", "main">>, complete |-> TRUE]
    IN  [method |-> "POST", url |-> "/webhook", signature |-> Digest(Secret, b),
         event |-> "push", body |-> b]

\* The watcher and the receiver on one server, over one working tree: the
\* post files change when a deployment script has pulled.
DeployNext ==
    \/ HandleRequest(PushToMain)
    \/ \E s \in scripts : ScriptStep(s)
    \/ \E s \in scripts, ok \in BOOLEAN : DeployExit(s, ok)
    \/ nEvents < pulled /\ FsEvent("change")
    \/ \E t \in timers : TimerFire(t)
    \/ Tick
    \/ \E b \in running, ok \in BOOLEAN : BuildExit(b, ok)
    \/ Advance(Cooldown)

(***************************************************************************)
(* Specifications.                                                         *)
(***************************************************************************)

\* The watcher has just started; no build pipeline runs beside it.
LoopInit ==
    /\ WatcherInit
    /\ BuildIdle
    /\ SessionIdle
    /\ EntryIdle
    /\ BlogIdle
    /\ WebhookIdle

WatcherSpec == LoopInit /\ [][WatcherNext]_vars

\* The event loop runs a due timer callback, and time does not stop.
WatcherFairSpec ==
    /\ WatcherSpec
    /\ WF_vars(Tick)
    /\ WF_vars(\E t \in timers : TimerFire(t))

ArtifactSpec ==
    ArtifactInit /\ [][ArtifactNext]_vars

ManifestSpec ==
    ManifestInit /\ [][ManifestNext]_vars

RebuildSpec ==
    ManifestInit /\ [][RebuildNext]_vars

QuerySpec ==
    QueryInit /\ [][QueryNext]_vars

SessionSpec ==
    SessionInit /\ [][SessionNext]_vars

EntrySpec ==
    EntryInit /\ [][EntryNext]_vars

BlogSpec ==
    BlogInit /\ [][BlogNext]_vars

WebhookSpec == LoopInit /\ [][WebhookNext]_vars

DeploySpec == LoopInit /\ [][DeployNext]_vars

(***************************************************************************)
(* Claims about the watch-rebuild loop.                                    *)
(***************************************************************************)

\* C1: at most one build child process started by runBuild is running in
\* every reachable state.
C1_SingleBuild == Cardinality(running) <= 1

\* C2: a build that answers an event which arrived while a build was running
\* starts only after that running build has exited.
C2_FollowUpAfterExit ==
    [][nStarted' # nStarted =>
         \A t \in timers \ timers' : t.during \cap RunningIds = {}]_vars

\* C3: debounce.  At most one timer is armed; an armed timer is due exactly
\* DebounceDelay seconds after the last event; every build starts
\* DebounceDelay seconds after the last event, and once the timer of a burst
\* is gone exactly one build has been started since the burst's last event.
C3_Debounce ==
    /\ Cardinality(timers) <= 1
    /\ \A t \in timers : t.left = DebounceDelay - sinceEvent
    /\ startedSinceEvent <= 1
    /\ nStarted > 0 => lastStartDelay = DebounceDelay
    /\ (alive /\ nEvents > 0 /\ timers = {}) => startedSinceEvent = 1

\* A burst of MaxEvents events has been answered by one single build, started
\* DebounceDelay seconds after the last of them.
C3_Witness ==
    /\ nEvents = MaxEvents
    /\ nStarted = 1
    /\ startedSinceEvent = 1
    /\ lastStartDelay = DebounceDelay

\* C4 as stated: every observed event is eventually followed by a build that
\* starts after it.
C4_EveryEventBuilt ==
    \A k \in 1..MaxEvents : (nEvents >= k) ~> (lastBuilt >= k)

\* C4, amended: every observed event is eventually followed by a build that
\* starts after it, unless the watcher is terminated by a signal first; the
\* last build started then read a disk state that includes every change.
C4_EveryEventBuiltUnlessStopped ==
    \A k \in 1..MaxEvents : (nEvents >= k) ~> (lastBuilt >= k \/ ~alive)

\* Every event of the run has been answered by a build started after it.
C4_Witness ==
    /\ alive
    /\ nEvents = MaxEvents
    /\ lastBuilt = nEvents
    /\ timers = {}

\* C5: a build that exits with a failure leaves the watcher running and the
\* timer as it was, and starts nothing (no retry); a build is started only by
\* a due timer, armed by an event that arrived after the last build start;
\* and an event arms the timer for the full delay whatever the last build's
\* result was.
C5_NoRetry ==
    [][/\ (running' \subseteq running /\ running' # running
                                     /\ lastExit' = "failed" /\ alive) =>
             /\ alive' /\ watching' = watching
             /\ timers' = timers /\ buildTimeout' = buildTimeout
             /\ nStarted' = nStarted
       /\ nStarted' # nStarted =>
             /\ nEvents > lastBuilt
             /\ \E t \in timers : t.left = 0 /\ t \notin timers'
       /\ nEvents' # nEvents =>
             /\ nStarted' = nStarted
             /\ timers' = {[id |-> nEvents', left |-> DebounceDelay,
                            during |-> RunningIds]}]_vars

\* After a failed build the loop is idle but for the timer armed by an event.
C5_Witness ==
    /\ alive
    /\ lastExit = "failed"
    /\ running = {}
    /\ timers # {}
    /\ nEvents > lastBuilt

\* C6: once the watcher has exited the watch handle is closed, no timer is
\* armed and no build child process is running.
C6_CleanShutdown ==
    ~alive => (~watching /\ timers = {} /\ running = {})

(***************************************************************************)
(* Claims about the build and its artifacts.                               *)
(***************************************************************************)

\* rss.xml and posts.json of one place are both there, both whole, and both
\* written by the same build.
Coherent(r, j) ==
    /\ r.st = "complete"
    /\ j.st = "complete"
    /\ r.build = j.build

\* C7: at every moment the artifacts a client can read, in public/ and in
\* the web root, are the complete output of one single build.
C7_AtomicArtifacts ==
    /\ Coherent(pubRss, pubJson)
    /\ Coherent(webRss, webJson)

\* C8: when a run of the build has failed, rss.xml and posts.json are exactly
\* as the last successful build wrote them.
C8_FailureKeepsArtifacts ==
    pc = "failed" => (pubRss = goodRss /\ pubJson = goodJson)

\* The manifest m is sorted non-increasing by date (as far as its dates are
\* dates).
NonIncreasingByDate(m) ==
    \A i, j \in DOMAIN m :
        (i < j /\ ValidDate(m[i].date) /\ ValidDate(m[j].date))
            => DateTable[m[i].date] >= DateTable[m[j].date]

\* C9: the posts.json written by the build, and the array getAllPosts()
\* returns, are sorted non-increasing by date, for every set of post files
\* and every order of the directory listing.
C9_SortedManifest ==
    pubJson.st = "complete" =>
        /\ NonIncreasingByDate(pubJson.items)
        /\ NonIncreasingByDate(GetAllPosts(pubJson))

\* C9 for post files whose dates all parse: the manifest is sorted
\* non-increasing by date whatever the order of the directory listing.
C9_SortedManifestValidDates ==
    (pubJson.st = "complete"
        /\ \A i \in DOMAIN pubJson.items : ValidDate(pubJson.items[i].date)) =>
        /\ NonIncreasingByDate(pubJson.items)
        /\ NonIncreasingByDate(GetAllPosts(pubJson))
        /\ \A i, j \in DOMAIN pubJson.items :
              i < j => DateTable[pubJson.items[i].date]
                          >= DateTable[pubJson.items[j].date]

\* Three posts with valid dates, not all the same, listed in another order
\* than the one the manifest has them in.
C9_ValidDatesWitness ==
    /\ pubJson.st = "complete"
    /\ Len(pubJson.items) = 3
    /\ \A i \in DOMAIN pubJson.items : ValidDate(pubJson.items[i].date)
    /\ pubJson.items[1].date # pubJson.items[3].date
    /\ postFiles[1].stem # pubJson.items[1].slug

\* C10: a build that finds the content directory missing or without post
\* files completes and leaves an empty manifest and a feed with no items.
C10_EmptyManifest ==
    (pc = "done" /\ postFiles = <<>>) =>
        /\ pubJson.st = "complete" /\ pubJson.items = <<>>
        /\ pubRss.st = "complete" /\ pubRss.items = <<>>

\* The names (without extension) of the files of the content directory whose
\* name ends in .md and is not POST_TEMPLATE.md.
PostStems(files) ==
    {n.stem : n \in {m \in DOMAIN files : m.ext = "md" /\ m # TemplateName}}

\* The slugs of the manifest m.
Slugs(m) == {m[i].slug : i \in DOMAIN m}

\* C11: after a build has completed, the slugs of posts.json are the names
\* of the post files the content directory held at that build; a post whose
\* file was deleted is not in the manifest any more.
C11_ManifestMatchesDirectory ==
    pc = "done" =>
        /\ pubJson.st = "complete"
        /\ Slugs(pubJson.items) = PostStems(dirFiles)

\* C12: a build over a directory in which one post file has malformed
\* frontmatter does not fail, and the manifest it completes with holds the
\* posts of all other files and nothing else.
C12_MalformedSkipped ==
    LET bad == {n \in DOMAIN dirFiles :
                   /\ n.ext = "md" /\ n # TemplateName
                   /\ ParseThrows(dirFiles[n])}
        others == [n \in DOMAIN dirFiles \ bad |-> dirFiles[n]]
    IN  (buildNo > 0 /\ Cardinality(bad) = 1) =>
            /\ pc # "failed"
            /\ pc = "done" =>
                  /\ pubJson.st = "complete"
                  /\ Slugs(pubJson.items) = PostStems(others)

(***************************************************************************)
(* Claims about the query functions of the client.                         *)
(***************************************************************************)

\* C14: over a manifest with unique slugs, getPostNavigation(slug) returns
\* previous = null for the first post, next = null for the last post, and
\* for every other post of the manifest the posts immediately before and
\* immediately after it.
C14_Navigation ==
    (result.fn = "getPostNavigation" /\ cachedPosts # <<>>) =>
        LET arr == cachedPosts[1]
            nav == result.value
        IN  \A i \in DOMAIN arr :
                arr[i].slug = result.arg =>
                    /\ i = 1 => nav.previous = <<>>
                    /\ i = Len(arr) => nav.next = <<>>
                    /\ (1 < i /\ i < Len(arr)) =>
                          /\ nav.previous = <<arr[i - 1]>>
                          /\ nav.next = <<arr[i + 1]>>

\* getPostNavigation has returned for the middle post of three.
C14_Witness ==
    /\ result.fn = "getPostNavigation"
    /\ cachedPosts # <<>>
    /\ Len(cachedPosts[1]) = MaxPosts
    /\ \E i \in 2..(MaxPosts - 1) :
          /\ cachedPosts[1][i].slug = result.arg
          /\ result.value.previous = <<cachedPosts[1][i - 1]>>
          /\ result.value.next = <<cachedPosts[1][i + 1]>>

\* x and y are the same letter, in whatever case.
SameLetter(x, y) ==
    \/ x = y
    \/ {x, y} = {"A", "a"}
    \/ {x, y} = {"B", "b"}

\* q occurs in t when letter case is disregarded.
InsensitiveSubstring(q, t) ==
    \E off \in 0..(Len(t) - Len(q)) :
        \A k \in 1..Len(q) : SameLetter(q[k], t[off + k])

\* C15: searchPosts(q) returns, in manifest order, exactly the posts for
\* which q is a case-insensitive substring of the title, the excerpt, the
\* content or at least one tag; a query that differs from q only in letter
\* case returns the same result.
C15_Search ==
    (result.fn = "searchPosts" /\ cachedPosts # <<>>) =>
        LET arr == cachedPosts[1]
            q == result.arg
        IN  /\ result.value =
                  SelectSeq(arr, LAMBDA post :
                      \/ InsensitiveSubstring(q, post.title)
                      \/ InsensitiveSubstring(q, post.excerpt)
                      \/ InsensitiveSubstring(q, post.content)
                      \/ \E i \in DOMAIN post.tags :
                            InsensitiveSubstring(q, post.tags[i]))
            /\ \A r \in Texts(MaxLen) :
                  (Len(r) = Len(q) /\ \A k \in 1..Len(q) : SameLetter(r[k], q[k]))
                      => SearchPosts(arr, r) = result.value

\* A search term with an upper-case letter has found some posts of the
\* manifest, one of them by a tag alone, and not others.
C15_Witness ==
    /\ result.fn = "searchPosts"
    /\ cachedPosts # <<>>
    /\ \E k \in DOMAIN result.arg : result.arg[k] \in {"A", "B"}
    /\ result.value # <<>>
    /\ Len(result.value) < Len(cachedPosts[1])
    /\ \E i \in DOMAIN result.value :
          LET post == result.value[i]
          IN  /\ ~InsensitiveSubstring(result.arg, post.title)
              /\ ~InsensitiveSubstring(result.arg, post.excerpt)
              /\ ~InsensitiveSubstring(result.arg, post.content)

\* s comes before t in alphabetical order, upper and lower case of a letter
\* being the same letter.
RECURSIVE AlphabeticallyBefore(_, _)
AlphabeticallyBefore(s, t) ==
    IF t = <<>> THEN FALSE
    ELSE IF s = <<>> THEN TRUE
    ELSE IF ~SameLetter(Head(s), Head(t))
    THEN ToLowerCase(<<Head(s)>>)[1] = "a"
    ELSE AlphabeticallyBefore(Tail(s), Tail(t))

\* C16: getAllTags() returns exactly the union of the tags of all posts,
\* with no duplicate, in ascending alphabetical order.
C16_AllTags ==
    (result.fn = "getAllTags" /\ cachedPosts # <<>>) =>
        LET arr == cachedPosts[1]
            tags == result.value
        IN  /\ {tags[i] : i \in DOMAIN tags} =
                  UNION {{arr[p].tags[k] : k \in DOMAIN arr[p].tags} : p \in DOMAIN arr}
            /\ \A i, j \in DOMAIN tags : tags[i] = tags[j] => i = j
            /\ \A i, j \in DOMAIN tags :
                  i < j => ~AlphabeticallyBefore(tags[j], tags[i])

\* C17: getPostsByTag(tag) returns exactly the posts of the manifest whose
\* tags contain tag, in manifest order, and an empty array when no post
\* carries the tag.
C17_PostsByTag ==
    (result.fn = "getPostsByTag" /\ cachedPosts # <<>>) =>
        LET arr == cachedPosts[1]
            carries(post) == \E k \in DOMAIN post.tags : post.tags[k] = result.arg
        IN  /\ result.value = SelectSeq(arr, carries)
            /\ (\A p \in DOMAIN arr : ~carries(arr[p])) => result.value = <<>>

\* getPostsByTag has returned two posts of three, in manifest order.
C17_Witness ==
    /\ result.fn = "getPostsByTag"
    /\ cachedPosts # <<>>
    /\ Len(cachedPosts[1]) = MaxPosts
    /\ Len(result.value) = 2
    /\ result.value[1] = cachedPosts[1][1]
    /\ result.value[2] = cachedPosts[1][MaxPosts]

\* C18: in one page session /posts.json is fetched at most once, however
\* many query functions are called and whenever they are called.
C18_SingleFetch == nFetch <= 1

(***************************************************************************)
(* Claims about the text-level functions of the build.                     *)
(***************************************************************************)

\* C13: two files of the flat content directory with different names give
\* posts with different slugs, by each of the three functions that derive
\* the slug from the file name.
C13_UniqueSlugs ==
    applied.fn \in {"parsePost", "processPost", "processPost (glob)"} =>
        applied.output[1] # applied.output[2]

\* The XML entity of a character that has one.
XmlEntity(c) ==
    CASE c = "&" -> <<"&", "a", "m", "p", ";">>
      [] c = "<" -> <<"&", "l", "t", ";">>
      [] c = ">" -> <<"&", "g", "t", ";">>
      [] c = "\"" -> <<"&", "q", "u", "o", "t", ";">>
      [] c = "'" -> <<"&", "a", "p", "o", "s", ";">>
      [] OTHER -> <<c>>

\* The text t with each of its characters & < > " ' replaced by its entity,
\* once.
RECURSIVE XmlEscaped(_)
XmlEscaped(t) ==
    IF t = <<>> THEN <<>> ELSE XmlEntity(Head(t)) \o XmlEscaped(Tail(t))

\* C19: in an item of the feed the title, the description, the content and
\* every category have each character & < > " ' replaced by its XML entity,
\* and none replaced twice.
C19_RssEscaped ==
    applied.fn = "generateRSS" =>
        LET post == applied.input
            item == applied.output
        IN  /\ item.title = XmlEscaped(post.title)
            /\ item.description = XmlEscaped(DescriptionText(post))
            /\ item.content = XmlEscaped(post.content)
            /\ Len(item.categories) = Len(post.tags)
            /\ \A i \in DOMAIN post.tags :
                  item.categories[i] = XmlEscaped(post.tags[i])

\* The number of words of a body: its maximal runs of characters that are
\* not white space.
WordCount(content) ==
    Cardinality({i \in DOMAIN content :
                    /\ content[i] \notin WhiteSpace
                    /\ (i = 1 \/ content[i - 1] \in WhiteSpace)})

\* C20: readingTime is ceiling(word_count / 200), the least whole number of
\* minutes in which word_count words are read at 200 words a minute, for
\* every body, an empty or whitespace-only one included.
C20_ReadingTime ==
    applied.fn \in {"postsData", "calculateReadingTime"} =>
        LET n == WordCount(applied.input)
        IN  /\ applied.output * WordsPerMinute >= n
            /\ \A k \in 0..n : k * WordsPerMinute >= n => applied.output <= k

\* C13 for prebuild.js and generatePosts.js, which take the slug with
\* path.basename: different names give different slugs.
C13_UniqueSlugsByBasename ==
    applied.fn \in {"parsePost", "processPost"} =>
        applied.output[1] # applied.output[2]

\* C19 without the content: title, description and categories are escaped,
\* each character once.
C19_RssEscapedButContent ==
    applied.fn = "generateRSS" =>
        LET post == applied.input
            item == applied.output
        IN  /\ item.title = XmlEscaped(post.title)
            /\ item.description = XmlEscaped(DescriptionText(post))
            /\ \A i \in DOMAIN post.tags :
                  item.categories[i] = XmlEscaped(post.tags[i])

\* C20 for the bodies that have a word.
C20_ReadingTimeOfWords ==
    (applied.fn \in {"postsData", "calculateReadingTime"}
        /\ WordCount(applied.input) > 0) =>
        LET n == WordCount(applied.input)
        IN  /\ applied.output * WordsPerMinute >= n
            /\ \A k \in 0..n : k * WordsPerMinute >= n => applied.output <= k

(***************************************************************************)
(* Claims about rebuilding, defaults, deployment and the blog archive.     *)
(***************************************************************************)

\* Every post file of the directory declares a date.
EveryPostDated(files) ==
    \A n \in DOMAIN files :
        (n.ext = "md" /\ n # TemplateName) => files[n].date # NoDate

\* C21: a build run again on an unchanged content directory in which every
\* post declares a date writes a posts.json identical to the one the build
\* before it wrote.
C21_Idempotent ==
    [][(/\ EveryPostDated(dirFiles)
        /\ goodJson.st = "complete"
        /\ pubJson' # pubJson
        /\ pubJson'.st = "complete")
          => pubJson'.items = goodJson.items]_vars

\* The second build has written its posts.json over the first build's, for
\* two or more dated posts, one of them with a date that does not parse.
C21_Witness ==
    /\ EveryPostDated(dirFiles)
    /\ pubJson.st = "complete"
    /\ pubJson.build = 2
    /\ Len(pubJson.items) >= 2
    /\ \E i \in DOMAIN pubJson.items : ~ValidDate(pubJson.items[i].date)

\* The placeholder title of the script that made the entry.
Placeholder(fn) == IF fn = "parsePostFields" THEN Str("Untitled") ELSE Str("Untitled Post")

\* The entry of a post file without a metadata block: the whole file is the
\* content and every metadata field has its default.
FullyDefaulted(fn, file, entry) ==
    /\ entry.content = file.body
    /\ entry.title = Placeholder(fn)
    /\ entry.excerpt = Str("")
    /\ entry.tags = List(<<>>)
    /\ entry.author = Str("Public Presence")
    /\ entry.date = Str(NowISO(1))

\* C22: a post file without a metadata block yields a post whose content is
\* the whole file and whose metadata is fully defaulted; and every entry of
\* the manifest carries the eight fields slug, title, date, excerpt, tags,
\* author, content and readingTime, with tags a list.
C22_DefaultsAndFields ==
    applied.fn \in {"parsePostFields", "processPostFields"} =>
        /\ ~applied.input.block =>
               FullyDefaulted(applied.fn, applied.input, applied.output)
        /\ applied.output.keys = MetadataKeys \cup {"content", "readingTime"}
        /\ applied.output.tags.type = "array"

\* C22 but for the type of tags: files without a metadata block are fully
\* defaulted, and every entry carries the eight fields.
C22_DefaultsAndFieldsButTags ==
    applied.fn \in {"parsePostFields", "processPostFields"} =>
        /\ ~applied.input.block =>
               FullyDefaulted(applied.fn, applied.input, applied.output)
        /\ applied.output.keys = MetadataKeys \cup {"content", "readingTime"}
        /\ applied.input.data.tags.type \in {"undefined", "null", "array"}
               => applied.output.tags.type = "array"

\* C27: once the module variable posts holds a successfully fetched manifest
\* its value never changes again in the page session, whatever load settles
\* later (a manifest without posts is the empty array a failed fetch would
\* leave, so only a manifest with posts can be seen to change).
C27_CacheKept ==
    [][(cachedPosts # <<>> /\ cachedPosts[1] # <<>>)
          => cachedPosts' = cachedPosts]_vars

\* C28: when the fetch of the manifest has failed (the server has a manifest
\* with posts and the cache holds the empty array), every query function
\* that returns answers as over an empty manifest, the empty array stays
\* cached and no fetch is issued any more.
C28_FailedFetch ==
    [][(served.items # <<>> /\ cachedPosts = << <<>> >>) =>
          /\ cachedPosts' = cachedPosts
          /\ nFetch' = nFetch
          /\ result' # result =>
                result'.value = QueryValue(result'.fn, result'.arg, <<>>)]_vars

\* The slugs of the manifest arr.
SlugsOf(arr) == {arr[i].slug : i \in DOMAIN arr}

\* C29: for a slug that no post of the manifest has, getPostBySlug returns
\* null and getPostNavigation returns previous = null and next = null.
C29_UnknownSlug ==
    (/\ result.fn \in {"getPostBySlug", "getPostNavigation"}
     /\ cachedPosts # <<>>
     /\ result.arg \notin SlugsOf(cachedPosts[1])) =>
        /\ result.fn = "getPostBySlug" => result.value = <<>>
        /\ result.fn = "getPostNavigation" =>
               (result.value.previous = <<>> /\ result.value.next = <<>>)

\* C29 for getPostBySlug alone, and for getPostNavigation over the empty
\* manifest.
C29_UnknownSlugLookup ==
    (/\ result.fn \in {"getPostBySlug", "getPostNavigation"}
     /\ cachedPosts # <<>>
     /\ result.arg \notin SlugsOf(cachedPosts[1])) =>
        /\ result.fn = "getPostBySlug" => result.value = <<>>
        /\ (result.fn = "getPostNavigation" /\ cachedPosts[1] = <<>>) =>
               (result.value.previous = <<>> /\ result.value.next = <<>>)

\* The post carries the tag.
Carries(post, tag) == \E k \in DOMAIN post.tags : post.tags[k] = tag

\* The text q, letter case disregarded, occurs in the title, the excerpt, the
\* content or a tag of the post.
MatchesSearch(post, q) ==
    \/ InsensitiveSubstring(q, post.title)
    \/ InsensitiveSubstring(q, post.excerpt)
    \/ InsensitiveSubstring(q, post.content)
    \/ \E k \in DOMAIN post.tags : InsensitiveSubstring(q, post.tags[k])

\* C30: the archive opened by a tag link /blog?tag=<tag> has that tag
\* selected and lists exactly the posts that carry it; with tags selected a
\* post is listed iff it carries at least one of them, and with a search
\* text as well iff it also matches the search.
C30_TagLink ==
    (blogPage = "ready" /\ blogPosts # <<>>) =>
        /\ searchParams.key = "tag" =>
              /\ selectedTags = <<searchParams.value>>
              /\ searchQuery = <<>> =>
                    filteredPosts =
                        SelectSeq(blogPosts,
                                  LAMBDA post : Carries(post, searchParams.value))
        /\ filteredPosts =
              SelectSeq(blogPosts, LAMBDA post :
                  /\ selectedTags # <<>> =>
                        \E i \in DOMAIN selectedTags : Carries(post, selectedTags[i])
                  /\ Trim(searchQuery) # <<>> => MatchesSearch(post, searchQuery))

\* C30 but for the tag link: whatever is selected, a post is listed iff it
\* carries one of the selected tags and matches the search text.
C30_Filter ==
    (blogPage = "ready" /\ blogPosts # <<>>) =>
        filteredPosts =
            SelectSeq(blogPosts, LAMBDA post :
                /\ selectedTags # <<>> =>
                      \E i \in DOMAIN selectedTags : Carries(post, selectedTags[i])
                /\ Trim(searchQuery) # <<>> => MatchesSearch(post, searchQuery))

\* C23: a build started by the watcher never runs while the deployment
\* script of the webhook receiver is in its npm run build.
C23_NoOverlappingBuilds ==
    ~(running # {} /\ \E s \in scripts : s.phase = "build")

\* A POST to /webhook whose signature is the HMAC-SHA256 of its body under
\* the secret, whose event is push and whose branch is main or master.
ValidPush(req) ==
    /\ req.method = "POST"
    /\ req.url = "/webhook"
    /\ req.signature = Digest(Secret, req.body)
    /\ req.event = "push"
    /\ req.body.json
    /\ req.body.ref \in {<<"refs", "heads", "main">>, <<"refs", "heads", "master">>}

\* Nothing about deployments has changed in the step.
NothingStarted ==
    /\ scripts' = scripts
    /\ deployTimes' = deployTimes

\* C24: isDeploying is true exactly while a deployment script is running; a
\* valid push received while one is running is answered with 429 and starts
\* nothing, so two scripts never run at once; and the flag is cleared when
\* the script exits, on success and on failure alike.
C24_DeployFlag ==
    [][/\ isDeploying <=> scripts # {}
       /\ isDeploying' <=> scripts' # {}
       /\ Cardinality(scripts') <= 1
       /\ \A req \in Requests :
             (ValidPush(req) /\ scripts # {} /\ HandleRequest(req)) =>
                 (response'.status = 429 /\ NothingStarted)
       /\ (scripts' # scripts /\ scripts' \subseteq scripts) => ~isDeploying']_vars

\* A valid push has been answered with 429 while a deployment script was
\* running, the cooldown being over.
C24_Witness ==
    /\ isDeploying
    /\ scripts # {}
    /\ response.status = 429
    /\ clock - lastDeployTime >= Cooldown

\* C25: any two deployments start at least Cooldown seconds apart; a valid
\* push that arrives less than Cooldown seconds after the last deployment
\* was triggered is answered with 429, starts no deployment and leaves
\* lastDeployTime as it is.
C25_Cooldown ==
    [][/\ \A i, j \in DOMAIN deployTimes' :
             i < j => deployTimes'[j] - deployTimes'[i] >= Cooldown
       /\ \A req \in Requests :
             (/\ ValidPush(req)
              /\ deployTimes # <<>>
              /\ clock - deployTimes[Len(deployTimes)] < Cooldown
              /\ HandleRequest(req)) =>
                 /\ response'.status = 429
                 /\ NothingStarted
                 /\ lastDeployTime' = lastDeployTime]_vars

\* Two deployments, the second exactly Cooldown seconds after the first,
\* and a push after it answered with 429 though no script is running.
C25_Witness ==
    /\ Len(deployTimes) = 2
    /\ deployTimes[2] - deployTimes[1] = Cooldown
    /\ scripts = {}
    /\ response.status = 429
    /\ clock - lastDeployTime = Cooldown - 1

\* C26: a deployment is started only for a valid push (POST to /webhook,
\* signature matching the body under the secret, event push, branch main or
\* master); every other request starts no deployment and leaves
\* lastDeployTime and isDeploying as they are.
C26_OnlyValidPush ==
    [][\A req \in Requests :
          HandleRequest(req) =>
              /\ ~NothingStarted => ValidPush(req)
              /\ ~ValidPush(req) =>
                    /\ NothingStarted
                    /\ lastDeployTime' = lastDeployTime
                    /\ isDeploying' = isDeploying]_vars

\* A deployment has been triggered and answered with 200.
C26_Witness ==
    /\ response = [status |-> 200, deployed |-> TRUE]
    /\ isDeploying
    /\ Len(deployTimes) = 1
    /\ lastDeployTime = clock

====
